---- MODULE Spec2Model ----
(***************************************************************************)
(* Pageel CMS: configuration reconciliation and synchronisation.           *)
(*                                                                         *)
(* The model covers the app store (sync lock, scan progress), the settings *)
(* store, the dashboard's bootstrap (loadSettingsAndScan) and the          *)
(* dashboard's handlers that mutate the remote config file                 *)
(* .pageelrc.json.  Every action is one continuation of the JavaScript     *)
(* event loop: the code that runs between two awaits.                      *)
(***************************************************************************)
EXTENDS Integers, Sequences, FiniteSets, TLC

(***************************************************************************)
(* JavaScript values.  A value is a pair <<tag, payload>>; the tag is the  *)
(* result of typeof (with arrays and objects told apart).                  *)
(***************************************************************************)
Str(s) == <<"s", s>>
Num(n) == <<"n", n>>
Bool(b) == <<"b", b>>
Arr(a) == <<"a", a>>
Undefined == <<"u", "undefined">>
IsStr(v) == v[1] = "s"
IsNum(v) == v[1] = "n"
IsBool(v) == v[1] = "b"
IsArr(v) == v[1] = "a"

\* JavaScript truthiness (the test made by  if (x)  and by  x || y)
Truthy(v) ==
    CASE v[1] = "s" -> v[2] # ""
      [] v[1] = "n" -> v[2] # 0
      [] v[1] = "b" -> v[2]
      [] v[1] \in {"a", "o", "j"} -> TRUE
      [] OTHER -> FALSE

\* The decimal numerals of the model's universe of strings: Number(s) is a
\* number exactly for these (and for "", which the callers exclude).
Numerals ==
    ("0" :> 0) @@ ("5" :> 5) @@ ("500" :> 500) @@ ("800" :> 800)
    @@ ("1024" :> 1024) @@ ("2024" :> 2024) @@ ("20000" :> 20000)

\* String(v)
String(v) ==
    CASE v[1] = "s" -> v[2]
      [] v[1] = "b" -> IF v[2] THEN "true" ELSE "false"
      [] v[1] = "n" -> CHOOSE s \in DOMAIN Numerals : Numerals[s] = v[2]
      [] OTHER -> "undefined"

(***************************************************************************)
(* Settings schema and defaults (features/settings/types.ts)               *)
(***************************************************************************)
MaxFileTypesLen == 100
MaxCommitLen == 200
MinImageSize == 10
MaxImageSize == 1024
MaxResizeWidth == 10000

SETTINGS_SCHEMA(key, v) ==
    CASE key = "projectType" -> IsStr(v) /\ v[2] \in {"astro", "github"}
      [] key \in {"postsPath", "imagesPath", "domainUrl", "postTemplate"} -> IsStr(v)
      [] key \in {"postFileTypes", "imageFileTypes"} ->
            IsStr(v) /\ Len(v[2]) < MaxFileTypesLen
      [] key = "publishDateSource" -> IsStr(v) /\ v[2] \in {"file", "system"}
      [] key = "imageCompressionEnabled" -> IsBool(v)
      [] key = "maxImageSize" ->
            IsNum(v) /\ v[2] >= MinImageSize /\ v[2] <= MaxImageSize
      [] key = "imageResizeMaxWidth" ->
            IsNum(v) /\ v[2] >= 0 /\ v[2] <= MaxResizeWidth
      [] key \in {"newPostCommit", "updatePostCommit", "newImageCommit",
                  "updateImageCommit"} -> IsStr(v) /\ Len(v[2]) < MaxCommitLen
      [] key = "pageel-cms-lang" -> IsStr(v) /\ v[2] \in {"en", "vi"}
      [] OTHER -> TRUE

\* the keys SETTINGS_SCHEMA has a validator for
SchemaKeys ==
    {"projectType", "postsPath", "imagesPath", "domainUrl", "postTemplate",
     "postFileTypes", "imageFileTypes", "publishDateSource",
     "imageCompressionEnabled", "maxImageSize", "imageResizeMaxWidth",
     "newPostCommit", "updatePostCommit", "newImageCommit",
     "updateImageCommit", "pageel-cms-lang"}

DEFAULT_SETTINGS ==
    [projectType |-> Str("astro"),
     postsPath |-> Str(""),
     imagesPath |-> Str("public/images"),
     domainUrl |-> Str(""),
     postFileTypes |-> Str(".md,.mdx"),
     imageFileTypes |-> Str("image/*"),
     publishDateSource |-> Str("file"),
     imageCompressionEnabled |-> Bool(FALSE),
     maxImageSize |-> Num(500),
     imageResizeMaxWidth |-> Num(1024),
     newPostCommit |-> Str("feat(content): add post \"{filename}\""),
     updatePostCommit |-> Str("fix(content): update post \"{filename}\""),
     newImageCommit |-> Str("feat(assets): add image \"{filename}\""),
     updateImageCommit |-> Str("refactor(assets): update image for \"{filename}\"")]

\* Object.keys(DEFAULT_SETTINGS), which is also the dashboard's keys list
SettingKeys == DOMAIN DEFAULT_SETTINGS

\* { ...a, ...b } for objects held as functions
Spread(a, b) ==
    [k \in DOMAIN a \cup DOMAIN b |-> IF k \in DOMAIN b THEN b[k] ELSE a[k]]

\* obj[key], undefined when the key is missing
Get(obj, key) == IF key \in DOMAIN obj THEN obj[key] ELSE Undefined

EmptyObj == [k \in {} |-> Undefined]

(***************************************************************************)
(* Local cache (localStorage): a map from storage keys to strings.  The    *)
(* storage key `${key}_${repoId}` is the pair <<key, repoId>>; a bare key  *)
(* is <<key, "">>.                                                         *)
(***************************************************************************)
REPO_SPECIFIC_KEYS == {"projectType", "postsPath", "imagesPath", "domainUrl"}

getStorageKey(key, repoId, isRepoSpecific) ==
    IF isRepoSpecific THEN <<key, repoId>> ELSE <<key, "">>

\* the dashboard's  `${key}_${prefix}`
ScopedKey(key, prefix) == <<key, prefix>>

\* the type inference made on a cached string before it is validated
ParseStored(stored) ==
    IF stored = "true" THEN Bool(TRUE)
    ELSE IF stored = "false" THEN Bool(FALSE)
    ELSE IF stored \in DOMAIN Numerals /\ stored # "" THEN Num(Numerals[stored])
    ELSE Str(stored)

\* loadSettingsAndScan's cache load: the valid subset of the cached fields
DashboardLoadCache(store, prefix) ==
    LET present == {k \in SettingKeys :
                        /\ ScopedKey(k, prefix) \in DOMAIN store
                        /\ SETTINGS_SCHEMA(k, ParseStored(store[ScopedKey(k, prefix)]))}
        loaded == [k \in present |-> ParseStored(store[ScopedKey(k, prefix)])]
    IN  IF "imageResizeMaxWidth" \in present THEN loaded
        ELSE Spread(loaded, [imageResizeMaxWidth |-> Num(1024)])

\* a cache refresh that writes the repository-specific fields only
CacheWriteRepoSpecific(store, prefix, obj, keys) ==
    LET ks == {k \in keys \cap REPO_SPECIFIC_KEYS : Get(obj, k) # Undefined}
    IN  [sk \in DOMAIN store \cup {ScopedKey(k, prefix) : k \in ks} |->
            IF \E k \in ks : sk = ScopedKey(k, prefix)
            THEN String(obj[CHOOSE k \in ks : sk = ScopedKey(k, prefix)])
            ELSE store[sk]]

\* localStorage.setItem for every key of keys whose value is defined
CacheWrite(store, prefix, obj, keys) ==
    LET ks == {k \in keys : Get(obj, k) # Undefined}
    IN  [sk \in DOMAIN store \cup {ScopedKey(k, prefix) : k \in ks} |->
            IF \E k \in ks : sk = ScopedKey(k, prefix)
            THEN String(obj[(CHOOSE k \in ks : sk = ScopedKey(k, prefix))])
            ELSE store[sk]]

(***************************************************************************)
(* Remote config file.  A parsed JSON document is a map from dotted paths  *)
(* to values ("paths.posts" is config.paths.posts); a nested object that   *)
(* is present is marked at its own path ("settings").                      *)
(***************************************************************************)
Obj == <<"o", "object">>
\* a JSON structure the model does not look into (a template, a column
\* list), named by its text: JSON.stringify gives the text back
J(text) == <<"j", text>>
Stringify(v) == v[2]

\* a collection as stored in a v2 document
Coll(id, name, posts, images) ==
    [id |-> id, name |-> name, postsPath |-> posts, imagesPath |-> images,
     template |-> <<"u", "undefined">>, tableColumns |-> <<"u", "undefined">>,
     columnWidths |-> <<"u", "undefined">>]

CollMain == Coll("collection-1", "Blog", "src/blog", "assets")
CollDocs == Coll("collection-2", "Docs", "docs", "public/docs")

DocV2 ==
    [version |-> Num(2), settings |-> Obj, commitMessages |-> Obj,
     collections |-> Arr(<<CollMain, CollDocs>>),
     activeCollectionId |-> Str("collection-1")]
    @@ ("settings.projectType" :> Str("github"))
    @@ ("settings.domainUrl" :> Str("https://a.dev"))
    @@ ("settings.postFileTypes" :> Str(".md"))
    @@ ("settings.maxImageSize" :> Num(800))
    @@ ("commitMessages.newPost" :> Str("add {filename}"))

\* a hand-edited v2 document without a version field
DocV2NoVersion == [k \in DOMAIN DocV2 \ {"version"} |-> DocV2[k]]

\* version 2 with an empty collections array: legacy/flat
DocV2Empty ==
    [version |-> Num(2), settings |-> Obj, collections |-> Arr(<<>>)]
    @@ ("settings.maxImageSize" :> Num(800))

\* a flat document whose values are all valid
DocV1 ==
    [version |-> Num(1), projectType |-> Str("github"), paths |-> Obj,
     domainUrl |-> Str("https://a.dev"), settings |-> Obj, commits |-> Obj]
    @@ ("paths.posts" :> Str("src/blog"))
    @@ ("paths.images" :> Str("assets"))
    @@ ("settings.postFileTypes" :> Str(".md"))
    @@ ("settings.imageCompressionEnabled" :> Bool(TRUE))
    @@ ("settings.maxImageSize" :> Num(800))
    @@ ("settings.imageResizeMaxWidth" :> Num(0))
    @@ ("commits.newPost" :> Str("add {filename}"))
    @@ ("templates.frontmatter" :> J("{\"title\":\"string\"}"))
    @@ ("ui.tableColumns" :> J("[\"title\"]"))

\* a flat document with invalid values and with valid empty strings
DocV1Odd ==
    [version |-> Num(1), projectType |-> Str("hugo"), paths |-> Obj,
     domainUrl |-> Str(""), settings |-> Obj]
    @@ ("paths.posts" :> Str(""))
    @@ ("paths.images" :> Num(5))
    @@ ("settings.publishDateSource" :> Str("git"))
    @@ ("settings.imageCompressionEnabled" :> Bool(FALSE))
    @@ ("settings.maxImageSize" :> Num(5))
    @@ ("settings.imageResizeMaxWidth" :> Num(20000))

\* the content of the remote file: parsed JSON, JSON null, or text that
\* JSON.parse rejects
Json(doc) == <<"doc", doc>>
JsonNull == <<"null">>
Malformed == <<"malformed">>
IsDoc(content) == content[1] = "doc"

NoFile == [exists |-> FALSE, content |-> <<"none">>]
File(content) == [exists |-> TRUE, content |-> content]

\* the concurrency token of the file: the hash of its content, null when the
\* file is missing
Sha(file) == IF file.exists THEN <<"sha", file.content>> ELSE <<"z", "null">>

\* updateFileContent: rejected when the token is stale
CanUpdate(file, sha) == file.exists /\ Sha(file) = sha
\* createFileFromString: rejected when the file exists
CanCreate(file) == ~file.exists
\* deleteFile: rejected when the token is stale
CanDelete(file, sha) == file.exists /\ Sha(file) = sha

\* a JSON document from <<path, value>> pairs; JSON.stringify drops the
\* members whose value is undefined
MkDoc(pairs) ==
    LET defined == {x \in pairs : x[2] # <<"u", "undefined">>}
    IN  [path \in {x[1] : x \in defined} |->
            (CHOOSE x \in defined : x[1] = path)[2]]

\* gitService.getFileContent followed by JSON.parse: "throw" when the call
\* rejects (network failure, missing file) or the text does not parse
ReadConfig(file, networkOk) ==
    IF ~networkOk \/ ~file.exists \/ file.content = Malformed THEN <<"throw">>
    ELSE file.content

\* a detection that trusts the version field, against which the version
\* heuristic is tried
VersionIsTwo(doc) == Get(doc, "version") = Num(2)

\* the version heuristic: v2 iff a non-empty collections array
HasCollections(doc) ==
    /\ IsArr(Get(doc, "collections"))
    /\ Len(Get(doc, "collections")[2]) > 0

\* config.settings of a document as an object: its "settings.x" members
SubObject(doc, name) ==
    LET members == {k \in SettingKeys : (name \o "." \o k) \in DOMAIN doc}
    IN  [k \in members |-> doc[name \o "." \o k]]

(***************************************************************************)
(* Bounds of the model                                                     *)
(***************************************************************************)
\* how many times the bootstrap effect runs (the mount, then repository changes)
MaxRuns == 2
\* how many handler invocations may be in flight at once
MaxTasks == 2
\* how many handler invocations a behaviour has in all
MaxCalls == 2

RepoA == "o/a"
RepoB == "o/b"
Repos == {RepoA, RepoB}

JsNull == <<"z", "null">>

(***************************************************************************)
(* Scenarios: what the repositories and the browser hold when the          *)
(* dashboard is constructed                                                *)
(***************************************************************************)
RemoteFilesA ==
    {NoFile, File(Json(DocV2)), File(Json(DocV2NoVersion)), File(Json(DocV2Empty)),
     File(Json(DocV1)), File(Json(DocV1Odd)), File(JsonNull), File(Malformed)}
RemoteFilesB == {NoFile}

CacheEmpty == [sk \in {} |-> ""]
CacheFull(id) ==
    (ScopedKey("projectType", id) :> "github")
    @@ (ScopedKey("postsPath", id) :> "content/posts")
    @@ (ScopedKey("imagesPath", id) :> "public/img")
    @@ (ScopedKey("domainUrl", id) :> "https://old.dev")
    @@ (ScopedKey("maxImageSize", id) :> "800")
    @@ (ScopedKey("imageCompressionEnabled", id) :> "true")
\* cached strings that fail their validators once decoded, beside valid ones
CacheOdd(id) ==
    (ScopedKey("projectType", id) :> "hugo")
    @@ (ScopedKey("postsPath", id) :> "2024")
    @@ (ScopedKey("imagesPath", id) :> "")
    @@ (ScopedKey("domainUrl", id) :> "https://old.dev")
    @@ (ScopedKey("maxImageSize", id) :> "5")
    @@ (ScopedKey("imageResizeMaxWidth", id) :> "0")
CachePostsOnly(id) == (ScopedKey("postsPath", id) :> "content/posts")
Caches ==
    {CacheEmpty, CacheFull(RepoA), CacheOdd(RepoA), CachePostsOnly(RepoA),
     CacheFull(RepoA) @@ CacheFull(RepoB)}

\* what the injected scan collaborators may resolve to
ProductionUrls == {JsNull, Str("https://found.dev")}
ContentDirs == {<<>>, <<"content/posts", "src/blog">>}
ImageDirs == {<<>>, <<"public/images", "assets">>}

VARIABLES
    repo,               \* the repo prop of the dashboard (its full_name)
    runs,               \* the runs of loadSettingsAndScan in flight, oldest first
    started,            \* how many runs have started
    lastDone,           \* what the run that finished last did, or Null
    workspace,          \* useCollectionStore: the workspace, or Null
    settings,           \* useSettingsStore: settings
    isSaving, saveSuccess, isSetupComplete,
    isSyncing, syncMessage,                 \* useAppStore: sync lock
    isScanning, scanPhase, scanProgress,    \* useAppStore: scan progress
    suggestedPostPaths, suggestedImagePaths,
    localStorage,
    sessionStorage,     \* the keys the browser's sessionStorage holds
    remote,             \* per repository: the file .pageelrc.json
    tasks,              \* the handler invocations in flight, oldest first
    lastLock,           \* how the latest withSyncLock call ended up
    importExportStatus,
    page,               \* "live", "reloading" (a reload is scheduled) or "unloaded"
    lastReturn,         \* the handler invocation that returned last, and how
    calls               \* how many handler invocations there have been

vars ==
    <<repo, runs, started, lastDone, workspace, settings, isSaving, saveSuccess, isSetupComplete,
      isSyncing, syncMessage, isScanning, scanPhase, scanProgress,
      suggestedPostPaths, suggestedImagePaths, localStorage, remote,
      tasks, lastLock, importExportStatus, page, lastReturn, calls, sessionStorage>>

\* what the bootstrap never touches
handlerVars ==
    <<tasks, lastLock, importExportStatus, page, lastReturn, calls, sessionStorage>>

\* a continuation of the bootstrap runs while the page is alive
BootStep == page # "unloaded" /\ UNCHANGED handlerVars

Null == [null |-> TRUE]

\* how a handler invocation returned: the handler, what ended it, and
\* whether it called setSaveSuccess(true) on its way
Returns(kind, event, setSaveSuccess) ==
    [kind |-> kind, event |-> event, setSaveSuccess |-> setSaveSuccess]

(***************************************************************************)
(* zustand persist of the settings store: every set() re-writes the blob   *)
(* 'pageel-settings', which holds isSetupComplete only                     *)
(***************************************************************************)
PersistKey == <<"pageel-settings", "">>
PersistBlob(complete) ==
    IF complete THEN "{\"isSetupComplete\":true}" ELSE "{\"isSetupComplete\":false}"
Persist(store, complete) ==
    [sk \in DOMAIN store \cup {PersistKey} |->
        IF sk = PersistKey THEN PersistBlob(complete) ELSE store[sk]]

\* what the login keeps in sessionStorage: the encrypted token and its key,
\* the repository chosen, the kind of service and its address
SessionKeys ==
    {"github_pat_encrypted", "crypto_key", "selected_repo", "service_type",
     "instance_url"}

\* the state after construction, the remote file of RepoA being one of
\* files and the cache one of caches
InitWith(files, caches) ==
    /\ repo = RepoA
    /\ runs = <<>>
    /\ started = 0
    /\ lastDone = Null
    /\ workspace = Null
    /\ settings = DEFAULT_SETTINGS
    /\ isSaving = FALSE
    /\ saveSuccess = FALSE
    /\ isSyncing = FALSE
    /\ syncMessage = JsNull
    /\ isScanning = TRUE
    /\ scanPhase = JsNull
    /\ scanProgress = 0
    /\ suggestedPostPaths = <<>>
    /\ suggestedImagePaths = <<>>
    /\ tasks = <<>>
    /\ lastLock = "none"
    /\ importExportStatus = JsNull
    /\ page = "live"
    /\ lastReturn = Returns("none", "none", FALSE)
    /\ calls = 0
    /\ sessionStorage = SessionKeys
    /\ \E fa \in files, fb \in RemoteFilesB :
            remote = (RepoA :> fa) @@ (RepoB :> fb)
    \* the persisted isSetupComplete of an earlier session is rehydrated
    /\ \E cache \in caches, rehydrated \in BOOLEAN :
            /\ isSetupComplete = rehydrated
            /\ localStorage = IF rehydrated THEN Persist(cache, TRUE) ELSE cache

InitOver(caches) == InitWith(RemoteFilesA, caches)
Init == InitOver(Caches)

(***************************************************************************)
(* App store (scan progress, sync lock) and settings store setters         *)
(***************************************************************************)
\* a setScanPhase that drops the progress it is given
setScanPhaseDefaultOnly(phase, progress) ==
    /\ scanPhase' = phase
    /\ scanProgress' = IF Truthy(phase) THEN 50 ELSE 0

setScanPhase(phase, progress) ==
    /\ scanPhase' = phase
    /\ scanProgress' = IF progress # Undefined THEN progress[2]
                       ELSE IF Truthy(phase) THEN 50 ELSE 0

\* a setScanning that does nothing
setScanningIgnored(scanning) == UNCHANGED isScanning

setScanning(scanning) == isScanning' = scanning

startSync(message) ==
    /\ isSyncing' = TRUE
    /\ syncMessage' = IF Truthy(message) THEN message ELSE Str("Syncing...")

\* an endSync that leaves the message of the finished operation
endSyncKeepsMessage ==
    /\ isSyncing' = FALSE
    /\ UNCHANGED syncMessage

endSync ==
    /\ isSyncing' = FALSE
    /\ syncMessage' = JsNull

\* setSettings with a partial object: { ...state.settings, ...newSettings }
setSettings(cur, newSettings) == Spread(cur, newSettings)

(***************************************************************************)
(* Collection store and its remote sync (features/collections)             *)
(***************************************************************************)
IsNull(x) == "null" \in DOMAIN x

NewWorkspace(id) ==
    [repoId |-> id, settings |-> EmptyObj, collections |-> <<>>,
     activeCollectionId |-> JsNull]

initWorkspace(ws, id) ==
    IF ~IsNull(ws) /\ ws.repoId = id THEN ws ELSE NewWorkspace(id)

setCollections(ws, list) == [ws EXCEPT !.collections = list]

updateSettings(ws, patch) == [ws EXCEPT !.settings = Spread(@, patch)]

setActiveCollection(ws, id) == [ws EXCEPT !.activeCollectionId = Str(id)]

\* a deletion that leaves activeCollectionId as it was
deleteCollectionKeepsActive(ws, id) ==
    [ws EXCEPT !.collections = SelectSeq(@, LAMBDA c : c.id # id)]

\* deleteCollection: the collection goes; when it was the active one the
\* first remaining collection becomes active, or none when the list is empty
deleteCollection(ws, id) ==
    LET rest == SelectSeq(ws.collections, LAMBDA c : c.id # id)
    IN  [ws EXCEPT !.collections = rest,
                   !.activeCollectionId =
                        IF @ # Str(id) THEN @
                        ELSE IF rest = <<>> THEN JsNull
                        ELSE Str(rest[1].id)]

CommitFields ==
    ("newPost" :> "newPostCommit") @@ ("updatePost" :> "updatePostCommit")
    @@ ("newImage" :> "newImageCommit") @@ ("updateImage" :> "updateImageCommit")

\* the settings of a v2 document: its settings object and its commit messages
V2Settings(doc) ==
    LET cm == {m \in DOMAIN CommitFields : ("commitMessages." \o m) \in DOMAIN doc}
        commits == [k \in {CommitFields[m] : m \in cm} |->
                        doc["commitMessages." \o
                            (CHOOSE m \in cm : CommitFields[m] = k)]]
    IN  Spread(SubObject(doc, "settings"), commits)

\* null unless the remote file is read and holds a non-empty collections array
loadCollectionsFromPageelrc(file, networkOk) ==
    LET c == ReadConfig(file, networkOk)
    IN  IF IsDoc(c) /\ HasCollections(c[2])
        THEN [collections |-> c[2]["collections"][2],
              settings |-> V2Settings(c[2]),
              activeCollectionId |-> Get(c[2], "activeCollectionId")]
        ELSE Null

(***************************************************************************)
(* loadSettingsAndScan: the bootstrap                                      *)
(***************************************************************************)
NewRun(id, closure) ==
    [repo |-> id,
     pc |-> "loadCollections",
     closure |-> closure,       \* the settings the effect's closure captured
     loaded |-> EmptyObj,       \* loadedSettings
     v2 |-> FALSE,              \* the remote-first load found collections
     configReads |-> 1,         \* reads of .pageelrc.json issued
     cacheRead |-> FALSE,
     cacheWrote |-> FALSE,
     scans |-> {},              \* scan collaborators invoked
     failed |-> {},             \* the reads of .pageelrc.json that failed
     completeAtStart |-> isSetupComplete]

\* the sequence without its i-th element
RemoveAt(seq, i) == [j \in 1..(Len(seq) - 1) |-> IF j < i THEN seq[j] ELSE seq[j + 1]]

\* the run r returns: it leaves the runs in flight
Finish(r, outcome, cacheWrote, failed) ==
    /\ runs' = RemoveAt(runs, r)
    /\ lastDone' = [repo |-> runs[r].repo, outcome |-> outcome, v2 |-> runs[r].v2,
                    configReads |-> runs[r].configReads,
                    cacheRead |-> runs[r].cacheRead, cacheWrote |-> cacheWrote,
                    scans |-> runs[r].scans,
                    failed |-> failed,
                    completeAtStart |-> runs[r].completeAtStart,
                    closure |-> runs[r].closure,
                    loaded |-> runs[r].loaded]

applyIfValid(acc, key, value) ==
    IF value # Undefined /\ key \in SchemaKeys /\ SETTINGS_SCHEMA(key, value)
    THEN [acc EXCEPT ![key] = value]
    ELSE acc

\* applyIfValid behind  if (value)
applyIfTruthy(acc, key, value) ==
    IF Truthy(value) THEN applyIfValid(acc, key, value) ELSE acc

RECURSIVE ApplySection(_, _, _, _)
\* applyIfValid for each listed member of config.settings / config.commits
ApplySection(acc, doc, prefix, members) ==
    IF members = <<>> THEN acc
    ELSE ApplySection(
            applyIfValid(acc, Head(members)[2],
                         Get(doc, prefix \o "." \o Head(members)[1])),
            doc, prefix, Tail(members))

TechnicalMembers ==
    <<  <<"postFileTypes", "postFileTypes">>,
        <<"imageFileTypes", "imageFileTypes">>,
        <<"publishDateSource", "publishDateSource">>,
        <<"imageCompressionEnabled", "imageCompressionEnabled">>,
        <<"maxImageSize", "maxImageSize">>,
        <<"imageResizeMaxWidth", "imageResizeMaxWidth">> >>
CommitMembers ==
    <<  <<"newPost", "newPostCommit">>, <<"updatePost", "updatePostCommit">>,
        <<"newImage", "newImageCommit">>, <<"updateImage", "updateImageCommit">> >>

\* newSettings after the field-by-field merge of the remote document
MergeRemote(base, config) ==
    LET s1 == applyIfTruthy(base, "projectType", Get(config, "projectType"))
        s2 == applyIfTruthy(s1, "postsPath", Get(config, "paths.posts"))
        s3 == applyIfTruthy(s2, "imagesPath", Get(config, "paths.images"))
        s4 == applyIfTruthy(s3, "domainUrl", Get(config, "domainUrl"))
        s5 == IF Truthy(Get(config, "settings"))
              THEN ApplySection(s4, config, "settings", TechnicalMembers) ELSE s4
    IN  IF Truthy(Get(config, "commits"))
        THEN ApplySection(s5, config, "commits", CommitMembers) ELSE s5

\* the template and table layout of a flat document go to the cache
CacheUi(store, prefix, config) ==
    LET tpl == Get(config, "templates.frontmatter")
        cols == Get(config, "ui.tableColumns")
        widths == Get(config, "ui.columnWidths")
        add == {<<"postTemplate", tpl>>, <<"postTableColumns", cols>>,
                <<"postTableColumnWidths", widths>>}
        put == {a \in add : Truthy(a[2])}
    IN  [sk \in DOMAIN store \cup {ScopedKey(a[1], prefix) : a \in put} |->
            IF \E a \in put : sk = ScopedKey(a[1], prefix)
            THEN Stringify((CHOOSE a \in put : sk = ScopedKey(a[1], prefix))[2])
            ELSE store[sk]]

\* a fallback that does not look at the cache at all, against which the
\* completion property is tried
AlwaysSufficient(loaded) == TRUE

\* a fallback that never trusts the cache, against which the order of the
\* fallback tiers is tried
NeverSufficient(loaded) == FALSE

\* the cache alone supplies the three mandatory fields
CacheSufficient(loaded) ==
    /\ Truthy(Get(loaded, "projectType"))
    /\ Truthy(Get(loaded, "postsPath"))
    /\ Truthy(Get(loaded, "imagesPath"))

\* the effect of [repo.full_name, gitService], up to its first await:
\* initWorkspace, then the call of loadCollectionsFromPageelrc
loadSettingsAndScan(id) ==
    /\ started' = started + 1
    /\ repo' = id
    /\ workspace' = initWorkspace(workspace, id)
    /\ runs' = Append(runs, NewRun(id, settings))
    /\ UNCHANGED <<lastDone, settings, isSaving, saveSuccess, isSetupComplete,
                   isSyncing, syncMessage, isScanning, scanPhase, scanProgress,
                   suggestedPostPaths, suggestedImagePaths, localStorage, remote>>

\* the dashboard is mounted: the effect runs for the first time
Mount ==
    /\ started = 0
    /\ BootStep
    /\ loadSettingsAndScan(repo)

\* the repo prop changes once the earlier run has returned: the effect runs again
RepoChanged(id) ==
    /\ started > 0
    /\ started < MaxRuns
    /\ runs = <<>>
    /\ id # repo
    /\ BootStep
    /\ loadSettingsAndScan(id)

\* loadCollectionsFromPageelrc resolved: collections into the workspace,
\* then the cache load and the call of getFileContent
BootCollectionsLoaded(r, networkOk) ==
    LET run == runs[r]
        data == loadCollectionsFromPageelrc(remote[run.repo], networkOk)
        found == ~IsNull(data) /\ Len(data.collections) > 0
        threw == ReadConfig(remote[run.repo], networkOk) = <<"throw">>
        loaded == DashboardLoadCache(localStorage, run.repo)
    IN  /\ run.pc = "loadCollections"
        /\ BootStep
        /\ workspace' =
              IF found /\ ~IsNull(workspace)
              THEN LET ws1 == setCollections(workspace, data.collections)
                   IN  IF DOMAIN data.settings # {}
                       THEN updateSettings(ws1, data.settings) ELSE ws1
              ELSE workspace
        /\ setScanning(TRUE)
        /\ settings' = Spread(settings, loaded)
        /\ localStorage' = Persist(localStorage, isSetupComplete)
        /\ setScanPhase(Str("Checking for .pageelrc.json..."), Num(30))
        /\ runs' = [runs EXCEPT ![r] =
                        [run EXCEPT !.pc = "getFileContent", !.loaded = loaded,
                                    !.v2 = found, !.cacheRead = TRUE,
                                    !.failed = IF threw THEN {"loadCollections"}
                                               ELSE {},
                                    !.configReads = 2]]
        /\ UNCHANGED <<repo, started, lastDone, isSaving, saveSuccess,
                       isSetupComplete, isSyncing, syncMessage,
                       suggestedPostPaths, suggestedImagePaths, remote>>

\* getFileContent resolved or rejected: the flat merge, else the cache
\* fallback, else the start of the scan
BootConfigRead(r, networkOk) ==
    LET run == runs[r]
        c == ReadConfig(remote[run.repo], networkOk)
        newSettings == MergeRemote(Spread(run.closure, run.loaded), c[2])
        failed == IF c = <<"throw">> THEN run.failed \cup {"getFileContent"}
                  ELSE run.failed
    IN  /\ run.pc = "getFileContent"
        /\ BootStep
        /\ IF IsDoc(c)
           THEN /\ settings' = setSettings(settings, newSettings)
                /\ localStorage' =
                      Persist(CacheUi(CacheWrite(localStorage, run.repo,
                                                 newSettings, SettingKeys),
                                      run.repo, c[2]), TRUE)
                /\ setScanPhase(Str("Configuration loaded"), Num(100))
                /\ isSetupComplete' = TRUE
                /\ setScanning(FALSE)
                /\ Finish(r, "remote", TRUE, failed)
           ELSE IF CacheSufficient(run.loaded)
           THEN /\ setScanPhase(Str("Using cached settings"), Num(100))
                /\ isSetupComplete' = TRUE
                /\ setScanning(FALSE)
                /\ localStorage' = Persist(localStorage, TRUE)
                /\ Finish(r, "cache", FALSE, failed)
                /\ UNCHANGED settings
           ELSE /\ IF Truthy(run.closure.domainUrl)
                   THEN /\ setScanPhase(Str("Scanning content directories..."), Num(75))
                        /\ runs' = [runs EXCEPT ![r] =
                                [run EXCEPT !.pc = "scanForContentDirectories",
                                            !.failed = failed,
                                            !.scans = {"scanForContentDirectories"}]]
                   ELSE /\ setScanPhase(Str("Detecting production URL..."), Num(60))
                        /\ runs' = [runs EXCEPT ![r] =
                                [run EXCEPT !.pc = "findProductionUrl",
                                            !.failed = failed,
                                            !.scans = {"findProductionUrl"}]]
                /\ UNCHANGED <<settings, isSetupComplete, isScanning, localStorage,
                               lastDone>>
        /\ UNCHANGED <<repo, started, workspace, isSaving, saveSuccess, isSyncing,
                       syncMessage, suggestedPostPaths, suggestedImagePaths,
                       remote>>

\* a scan collaborator rejected: the catch and the finally of the scan
BootScanFailed(r) ==
    LET run == runs[r]
    IN  /\ run.pc \in {"findProductionUrl", "scanForContentDirectories",
                       "scanForImageDirectories"}
        /\ BootStep
        /\ setScanPhase(Str("Error: scan failed"), Num(0))
        /\ setScanning(FALSE)
        /\ Finish(r, "scanFailed", FALSE, run.failed)
        /\ UNCHANGED <<repo, started, workspace, settings, isSaving, saveSuccess,
                       isSetupComplete, isSyncing, syncMessage,
                       suggestedPostPaths, suggestedImagePaths, localStorage,
                       remote>>

\* findProductionUrl resolved
BootUrlProbed(r, foundUrl) ==
    LET run == runs[r]
        apply == Truthy(foundUrl) /\ ~Truthy(run.closure.domainUrl)
    IN  /\ run.pc = "findProductionUrl"
        /\ BootStep
        /\ settings' = IF apply THEN [settings EXCEPT !.domainUrl = foundUrl]
                       ELSE settings
        /\ localStorage' = IF apply THEN Persist(localStorage, isSetupComplete)
                           ELSE localStorage
        /\ setScanPhase(Str("Scanning content directories..."), Num(75))
        /\ runs' = [runs EXCEPT ![r] =
                        [run EXCEPT !.pc = "scanForContentDirectories",
                                    !.scans = @ \cup {"scanForContentDirectories"}]]
        /\ UNCHANGED <<repo, started, lastDone, workspace, isSaving, saveSuccess,
                       isSetupComplete, isSyncing, syncMessage, isScanning,
                       suggestedPostPaths, suggestedImagePaths, remote>>

\* a choice of the last directory found
LastSuggestion(dirs, current) ==
    IF Len(dirs) > 0 THEN Str(dirs[Len(dirs)]) ELSE current

\* dirs[0] when the scan found directories, else the path as it was
FirstSuggestion(dirs, current) ==
    IF Len(dirs) > 0 THEN Str(dirs[1]) ELSE current

\* scanForContentDirectories resolved
BootContentScanned(r, contentDirs) ==
    LET run == runs[r]
    IN  /\ run.pc = "scanForContentDirectories"
        /\ BootStep
        /\ suggestedPostPaths' = contentDirs
        /\ settings' = [settings EXCEPT
                            !.postsPath = FirstSuggestion(contentDirs, @)]
        /\ localStorage' = IF Len(contentDirs) > 0
                           THEN Persist(localStorage, isSetupComplete)
                           ELSE localStorage
        /\ setScanPhase(Str("Scanning image directories..."), Num(90))
        /\ runs' = [runs EXCEPT ![r] =
                        [run EXCEPT !.pc = "scanForImageDirectories",
                                    !.scans = @ \cup {"scanForImageDirectories"}]]
        /\ UNCHANGED <<repo, started, lastDone, workspace, isSaving, saveSuccess,
                       isSetupComplete, isSyncing, syncMessage, isScanning,
                       suggestedImagePaths, remote>>

\* scanForImageDirectories resolved: the scan is complete
BootImagesScanned(r, imageDirs) ==
    LET run == runs[r]
    IN  /\ run.pc = "scanForImageDirectories"
        /\ BootStep
        /\ suggestedImagePaths' = imageDirs
        /\ settings' = [settings EXCEPT
                            !.imagesPath = FirstSuggestion(imageDirs, @)]
        /\ localStorage' = IF Len(imageDirs) > 0
                           THEN Persist(localStorage, isSetupComplete)
                           ELSE localStorage
        /\ setScanPhase(Str("Scan complete"), Num(100))
        /\ setScanning(FALSE)
        /\ Finish(r, "scanned", FALSE, run.failed)
        /\ UNCHANGED <<repo, started, workspace, isSaving, saveSuccess,
                       isSetupComplete, isSyncing, syncMessage,
                       suggestedPostPaths, remote>>

Bootstrap ==
    \/ Mount
    \/ \E id \in Repos : RepoChanged(id)
    \/ \E r \in DOMAIN runs, networkOk \in BOOLEAN : BootCollectionsLoaded(r, networkOk)
    \/ \E r \in DOMAIN runs, networkOk \in BOOLEAN : BootConfigRead(r, networkOk)
    \/ \E r \in DOMAIN runs : BootScanFailed(r)
    \/ \E r \in DOMAIN runs, foundUrl \in ProductionUrls : BootUrlProbed(r, foundUrl)
    \/ \E r \in DOMAIN runs, contentDirs \in ContentDirs : BootContentScanned(r, contentDirs)
    \/ \E r \in DOMAIN runs, imageDirs \in ImageDirs : BootImagesScanned(r, imageDirs)

(***************************************************************************)
(* withSyncLock (features/app/store.ts) and the handler invocations        *)
(***************************************************************************)
\* a lock without the busy test, and one released only after a success: the
\* two ways the lock could be written wrongly, against which the lock
\* properties are tried
AlwaysAdmitted(syncing) == "admitted"
ReleasedOnSuccess(succeeded) == succeeded

\* the admission test of withSyncLock: the busy error when a sync is in
\* progress, else startSync and the call of the operation
withSyncLock(syncing) == IF syncing THEN "busy" ELSE "admitted"

\* a busy error thrown from inside the try block, whose finally calls endSync
RejectedInsideTry == endSync

\* the busy error is thrown before the try block is entered: neither
\* startSync nor endSync runs
RejectedBusy == UNCHANGED <<isSyncing, syncMessage>>

\* finally { endSync() }: the lock is released however the operation ended
ReleasesLock(succeeded) == TRUE

bootVars ==
    <<repo, runs, started, lastDone, isScanning, scanPhase, scanProgress,
      suggestedPostPaths, suggestedImagePaths>>

\* a gate that tests isSetupComplete before isScanning, against which the
\* gate property is tried
SetupFirstView ==
    IF page = "unloaded" THEN "none"
    ELSE IF ~isSetupComplete THEN "setup"
    ELSE IF isScanning THEN "scanning"
    ELSE "main"

\* what the dashboard renders: the spinner while isScanning, else the setup
\* wizard while setup is incomplete, else its views
DashboardView ==
    IF page = "unloaded" THEN "none"
    ELSE IF isScanning THEN "scanning"
    ELSE IF ~isSetupComplete THEN "setup"
    ELSE "main"

\* the dashboard renders its views (and not the spinner or the wizard)
MainUI == DashboardView = "main"
\* the dashboard renders the setup wizard
WizardUI == DashboardView = "setup"

\* a handler is invoked
Invoke == Len(tasks) < MaxTasks /\ calls < MaxCalls /\ calls' = calls + 1

\* an invocation of a handler that awaits the repository
\* a writer that updates whether or not a sha was read
UpdatesWithoutSha(kind, sha) ==
    IF kind = "handleDeleteConfig" THEN "deleteFile" ELSE "updateFileContent"

\* the call that writes the config file, given the sha getFileSha returned:
\* handleFinishSetup creates without reading one
WriteOperation(kind, sha) ==
    CASE kind = "handleDeleteConfig" -> "deleteFile"
      [] kind = "handleFinishSetup" -> "createFileFromString"
      [] sha # JsNull -> "updateFileContent"
      [] OTHER -> "createFileFromString"

NewTask(kind, pc, locked, doc) ==
    [kind |-> kind,
     pc |-> pc,                 \* "getFileSha" or "write": the call awaited
     op |-> IF pc = "write" THEN WriteOperation(kind, JsNull) ELSE "none",
     repo |-> repo,             \* the repository of the closure's gitService
     locked |-> locked,         \* the awaited call runs inside withSyncLock
     token |-> JsNull,          \* the sha read by getFileSha
     doc |-> doc,               \* the content to write
     closure |-> settings]      \* the settings of the closure

\* the end of withSyncLock for the task
Release(task, succeeded) ==
    IF task.locked /\ ReleasesLock(succeeded) THEN endSync
    ELSE UNCHANGED <<isSyncing, syncMessage>>

\* a v2 document from a workspace, as saveCollectionsToPageelrc writes it
V2Document(ws) ==
    LET technical == DOMAIN ws.settings \ {CommitFields[m] : m \in DOMAIN CommitFields}
        cm == {m \in DOMAIN CommitFields : CommitFields[m] \in DOMAIN ws.settings}
    IN  Json(MkDoc(
            {<<"version", Num(2)>>, <<"settings", Obj>>, <<"commitMessages", Obj>>,
             <<"collections", Arr(ws.collections)>>,
             <<"activeCollectionId", ws.activeCollectionId>>}
            \cup {<<"settings." \o k, ws.settings[k]>> : k \in technical}
            \cup {<<"commitMessages." \o m, ws.settings[CommitFields[m]]>> : m \in cm}))

\* getActiveCollection: the index of the active collection, 0 when none
getActiveCollection(ws) ==
    IF \E i \in DOMAIN ws.collections : Str(ws.collections[i].id) = ws.activeCollectionId
    THEN CHOOSE i \in DOMAIN ws.collections :
            Str(ws.collections[i].id) = ws.activeCollectionId
    ELSE 0

\* localStorage.getItem(...) ? JSON.parse(...) : undefined
ParsedItem(store, key, prefix) ==
    IF ScopedKey(key, prefix) \in DOMAIN store /\ store[ScopedKey(key, prefix)] # ""
    THEN J(store[ScopedKey(key, prefix)])
    ELSE Undefined

\* x || y
Or(x, y) == IF Truthy(x) THEN x ELSE y

\* a lookup that never finds the active collection
NoActivePath(ws, field) == Undefined

\* activeCollection?.[field]
ActivePath(ws, field) ==
    IF IsNull(ws) \/ getActiveCollection(ws) = 0 THEN Undefined
    ELSE Str(ws.collections[getActiveCollection(ws)][field])

\* the paths the dashboard hands to its views
effectivePostsPath == Or(ActivePath(workspace, "postsPath"), settings.postsPath)
effectiveImagesPath == Or(ActivePath(workspace, "imagesPath"), settings.imagesPath)

\* handleSaveSettings: the active collection takes the cached template and
\* table layout
RefreshActiveCollection(ws, store, prefix) ==
    LET i == getActiveCollection(ws)
    IN  IF i = 0 THEN ws
        ELSE [ws EXCEPT
                !.collections[i].template =
                    Or(ParsedItem(store, "postTemplate", prefix), @),
                !.collections[i].tableColumns =
                    Or(ParsedItem(store, "postTableColumns", prefix), @),
                !.collections[i].columnWidths =
                    Or(ParsedItem(store, "postTableColumnWidths", prefix), @)]

\* the flat document the legacy path of handleSaveSettings writes
LegacyDocument(st, store, prefix) ==
    Json(MkDoc(
        {<<"version", Num(1)>>, <<"projectType", st.projectType>>,
         <<"paths", Obj>>, <<"paths.posts", st.postsPath>>,
         <<"paths.images", st.imagesPath>>, <<"domainUrl", st.domainUrl>>,
         <<"templates", Obj>>,
         <<"templates.frontmatter", ParsedItem(store, "postTemplate", prefix)>>,
         <<"ui", Obj>>,
         <<"ui.tableColumns", ParsedItem(store, "postTableColumns", prefix)>>,
         <<"settings", Obj>>, <<"commits", Obj>>}
        \cup {<<"settings." \o TechnicalMembers[i][1], st[TechnicalMembers[i][2]]>> :
                i \in DOMAIN TechnicalMembers}
        \cup {<<"commits." \o CommitMembers[i][1], st[CommitMembers[i][2]]>> :
                i \in DOMAIN CommitMembers}))

\* what the settings form may send to handleSettingsChange
SettingEdits ==
    {<<"maxImageSize", Num(5)>>, <<"postsPath", Str("content/posts")>>}

\* setSettings(prev => ({ ...prev, [field]: value }))
handleSettingsChange(field, value) ==
    /\ MainUI \/ WizardUI
    /\ settings' = setSettings(settings, (field :> value))
    /\ localStorage' = Persist(localStorage, isSetupComplete)
    /\ UNCHANGED <<bootVars, workspace, isSaving, saveSuccess, isSetupComplete,
                   isSyncing, syncMessage, remote, handlerVars>>

\* handleCollectionCreated, handleCollectionUpdated, handleDeleteCollection:
\* the latest workspace is saved under the lock
SaveLatestWorkspace(kind, message) ==
    /\ MainUI
    /\ Invoke
    /\ ~IsNull(workspace)
    /\ lastLock' = withSyncLock(isSyncing)
    /\ IF withSyncLock(isSyncing) = "admitted"
       THEN /\ startSync(Str(message))
            /\ tasks' = Append(tasks, NewTask(kind, "getFileSha", TRUE,
                                              V2Document(workspace)))
            /\ UNCHANGED lastReturn
       ELSE /\ lastReturn' = Returns(kind, "busy", FALSE)
            /\ RejectedBusy
            /\ UNCHANGED tasks
    /\ UNCHANGED <<bootVars, workspace, settings, isSaving, saveSuccess,
                   isSetupComplete, localStorage, remote, importExportStatus, page,
                   sessionStorage>>

handleCollectionCreated ==
    SaveLatestWorkspace("handleCollectionCreated", "Saving collection...")
handleCollectionUpdated ==
    SaveLatestWorkspace("handleCollectionUpdated", "Updating collection...")
handleDeleteCollection ==
    SaveLatestWorkspace("handleDeleteCollection", "Deleting collection...")
\* the onTemplateSaved callback given to the template generator
onTemplateSaved ==
    SaveLatestWorkspace("onTemplateSaved", "Saving template...")

\* handleSaveSettings up to its first await
handleSaveSettings ==
    LET cached == CacheWrite(localStorage, repo, settings, DOMAIN settings)
        admission == withSyncLock(isSyncing)
    IN  /\ MainUI
        /\ Invoke
        /\ localStorage' = Persist(cached, isSetupComplete)
        /\ saveSuccess' = FALSE
        /\ IF ~IsNull(workspace)
           THEN /\ workspace' = updateSettings(
                                    RefreshActiveCollection(workspace, cached, repo),
                                    settings)
                /\ lastLock' = admission
                /\ IF admission = "admitted"
                   THEN /\ startSync(Str("Saving settings..."))
                        /\ isSaving' = TRUE
                        /\ tasks' = Append(tasks,
                                        NewTask("handleSaveSettings", "getFileSha",
                                                TRUE, V2Document(workspace')))
                        /\ UNCHANGED lastReturn
                   \* the busy error: the outer catch, then finally
                   ELSE /\ isSaving' = FALSE
                        /\ lastReturn' = Returns("handleSaveSettings", "busy", FALSE)
                        /\ RejectedBusy
                        /\ UNCHANGED tasks
           ELSE /\ isSaving' = TRUE
                /\ tasks' = Append(tasks,
                                NewTask("handleSaveSettingsLegacy", "getFileSha",
                                        FALSE, Json(EmptyObj)))
                /\ UNCHANGED <<workspace, lastLock, isSyncing, syncMessage,
                               lastReturn>>
        /\ UNCHANGED <<bootVars, settings, isSetupComplete, remote,
                       importExportStatus, page, sessionStorage>>

\* `collection-${Date.now()}`
NewCollectionId == "collection-9"
CollectionNames == {"", "Notes"}

\* the technical fields and commit templates handleFinishSetup copies
WorkspaceFields ==
    {"projectType", "domainUrl", "postFileTypes", "imageFileTypes",
     "publishDateSource", "imageCompressionEnabled", "maxImageSize",
     "imageResizeMaxWidth", "newPostCommit", "updatePostCommit",
     "newImageCommit", "updateImageCommit"}

\* initialCollection of handleFinishSetup
InitialCollection(st, store, prefix, collectionName) ==
    [id |-> NewCollectionId,
     name |-> IF collectionName # "" THEN collectionName ELSE "Main Collection",
     postsPath |-> st.postsPath[2],
     imagesPath |-> st.imagesPath[2],
     template |-> ParsedItem(store, "postTemplate", prefix),
     tableColumns |-> ParsedItem(store, "postTableColumns", prefix),
     columnWidths |-> ParsedItem(store, "postTableColumnWidths", prefix)]

\* workspaceConfig of handleFinishSetup (it has no activeCollectionId)
WorkspaceConfig(st, coll) ==
    Json(MkDoc(
        {<<"version", Num(2)>>, <<"settings", Obj>>, <<"commitMessages", Obj>>,
         <<"collections", Arr(<<coll>>)>>,
         <<"settings.projectType", st.projectType>>,
         <<"settings.domainUrl", st.domainUrl>>}
        \cup {<<"settings." \o TechnicalMembers[i][1], st[TechnicalMembers[i][2]]>> :
                i \in DOMAIN TechnicalMembers}
        \cup {<<"commitMessages." \o CommitMembers[i][1], st[CommitMembers[i][2]]>> :
                i \in DOMAIN CommitMembers}))

\* a finish-setup that does not look at the settings
isReadyAlways(st) == TRUE

isReady(st) ==
    IF st.projectType = Str("github")
    THEN Truthy(st.postsPath) /\ Truthy(st.imagesPath)
    ELSE Truthy(st.postsPath) /\ Truthy(st.imagesPath) /\ Truthy(st.domainUrl)

\* handleFinishSetup up to its await
handleFinishSetup(collectionName) ==
    LET admission == withSyncLock(isSyncing)
        coll == InitialCollection(settings, localStorage, repo, collectionName)
    IN  /\ WizardUI
        /\ Invoke
        /\ isReady(settings)
        /\ lastLock' = admission
        /\ IF admission = "admitted"
           THEN /\ startSync(Str("Creating configuration..."))
                /\ tasks' = Append(tasks,
                                NewTask("handleFinishSetup", "write", TRUE,
                                        WorkspaceConfig(settings, coll)))
                /\ UNCHANGED <<isSetupComplete, localStorage, lastReturn>>
           \* the busy error is caught; setSetupComplete(true) follows
           ELSE /\ isSetupComplete' = TRUE
                /\ lastReturn' = Returns("handleFinishSetup", "busy", FALSE)
                /\ localStorage' = Persist(localStorage, TRUE)
                /\ RejectedBusy
                /\ UNCHANGED tasks
        /\ UNCHANGED <<bootVars, workspace, settings, isSaving, saveSuccess,
                       remote, importExportStatus, page, sessionStorage>>

\* handleDeleteConfig up to its first await
handleDeleteConfig ==
    /\ MainUI
    /\ Invoke
    /\ isSaving' = TRUE
    /\ localStorage' = Persist(localStorage, isSetupComplete)
    /\ tasks' = Append(tasks, NewTask("handleDeleteConfig", "getFileSha", FALSE,
                                      Json(EmptyObj)))
    /\ UNCHANGED <<bootVars, workspace, settings, saveSuccess, isSetupComplete,
                   isSyncing, syncMessage, remote, lastLock, importExportStatus,
                   page, lastReturn, sessionStorage>>

\* the files a user may pick for import
ImportV2 ==
    [settings |-> Obj, collections |-> Arr(<<CollDocs>>),
     activeCollectionId |-> Str("collection-2")]
    @@ ("settings.projectType" :> Str("github"))
ImportFlat ==
    [postsPath |-> Str("content/posts"), maxImageSize |-> Num(800),
     imageCompressionEnabled |-> Bool(FALSE)]
    @@ ("pageel-cms-lang" :> Str("vi"))
ImportFlatInvalid == [postsPath |-> Str("content/posts"), maxImageSize |-> Num(5)]
\* version 2 with an empty collections array
ImportV2Empty ==
    [version |-> Num(2), collections |-> Arr(<<>>), postsPath |-> Str("docs")]
\* collections beside a version field that says 1
ImportV1Collections ==
    [version |-> Num(1), collections |-> Arr(<<CollMain>>),
     activeCollectionId |-> Str("collection-1")]
ImportFiles ==
    {Malformed, Json(ImportV2), Json(ImportFlat), Json(ImportFlatInvalid),
     Json(ImportV2Empty), Json(ImportV1Collections)}

\* exportData of handleExportSettings: the workspace in its v2 form
ExportData(ws) ==
    MkDoc(
        {<<"version", Num(2)>>, <<"settings", Obj>>, <<"commitMessages", Obj>>,
         <<"collections", Arr(ws.collections)>>,
         <<"activeCollectionId", ws.activeCollectionId>>}
        \cup {<<"settings." \o k, ws.settings[k]>> : k \in DOMAIN ws.settings}
        \cup {<<"commitMessages." \o m, Get(ws.settings, CommitFields[m])>> :
                m \in DOMAIN CommitFields})

\* the file handleExportSettings downloads from a workspace with collections
ExportedFiles ==
    IF ~IsNull(workspace) /\ Len(workspace.collections) > 0
    THEN {Json(ExportData(workspace))}
    ELSE {}

\* a flat import that validates nothing
ImportUnchecked(imported) == TRUE

\* the validation loop of the flat import: no key of the schema is invalid
ImportValid(imported) ==
    \A k \in DOMAIN imported : k \in SchemaKeys => SETTINGS_SCHEMA(k, imported[k])

\* the cache writes of the flat import
ImportCacheWrite(store, prefix, imported) ==
    LET ks == DOMAIN imported \cap SchemaKeys
        sk(k) == IF k = "pageel-cms-lang" THEN <<k, "">> ELSE ScopedKey(k, prefix)
    IN  [x \in DOMAIN store \cup {sk(k) : k \in ks} |->
            IF \E k \in ks : x = sk(k)
            THEN String(imported[(CHOOSE k \in ks : x = sk(k))])
            ELSE store[x]]

\* x ?? y
Coalesce(x, y) == IF x = Undefined \/ x = JsNull THEN y ELSE x

\* configObject of the flat import: imported values over the closure's settings
ImportConfigObject(imported, st) ==
    Json(MkDoc(
        {<<"version", Num(1)>>,
         <<"projectType", Or(Get(imported, "projectType"), st.projectType)>>,
         <<"paths", Obj>>,
         <<"paths.posts", Or(Get(imported, "postsPath"), st.postsPath)>>,
         <<"paths.images", Or(Get(imported, "imagesPath"), st.imagesPath)>>,
         <<"domainUrl", Or(Get(imported, "domainUrl"), st.domainUrl)>>,
         <<"settings", Obj>>, <<"commits", Obj>>}
        \cup {<<"settings." \o TechnicalMembers[i][1],
                IF TechnicalMembers[i][2] = "imageCompressionEnabled"
                THEN Coalesce(Get(imported, "imageCompressionEnabled"),
                              st.imageCompressionEnabled)
                ELSE Or(Get(imported, TechnicalMembers[i][2]),
                        st[TechnicalMembers[i][2]])>> :
                i \in DOMAIN TechnicalMembers}
        \cup {<<"commits." \o CommitMembers[i][1],
                Or(Get(imported, CommitMembers[i][2]), st[CommitMembers[i][2]])>> :
                i \in DOMAIN CommitMembers}))

\* reader.onload of handleFileImport up to its first await
handleFileImport(file) ==
    LET imported == file[2]
        admission == withSyncLock(isSyncing)
        isV2 == IsDoc(file) /\ HasCollections(imported)
        rejected == ~IsDoc(file) \/ (~isV2 /\ ~ImportValid(imported))
        content == IF isV2 THEN Json(Spread([version |-> Num(2)], imported))
                   ELSE ImportConfigObject(imported, settings)
    IN  /\ MainUI
        /\ Invoke
        /\ IF rejected
           THEN /\ importExportStatus' =
                        IF IsDoc(file) THEN Str("error: validation")
                        ELSE Str("error: json")
                /\ lastReturn' = Returns("handleFileImport", "invalid", FALSE)
                /\ UNCHANGED <<localStorage, lastLock, isSyncing, syncMessage, tasks>>
           ELSE /\ localStorage' = IF isV2 THEN localStorage
                                   ELSE ImportCacheWrite(localStorage, repo, imported)
                /\ lastLock' = admission
                /\ IF admission = "admitted"
                   THEN /\ startSync(Str("Importing configuration..."))
                        /\ tasks' = Append(tasks,
                                        NewTask("handleFileImport", "getFileSha",
                                                TRUE, content))
                        /\ UNCHANGED <<importExportStatus, lastReturn>>
                   ELSE /\ importExportStatus' = Str("error: save")
                        /\ lastReturn' = Returns("handleFileImport", "busy", FALSE)
                        /\ RejectedBusy
                        /\ UNCHANGED tasks
        /\ UNCHANGED <<bootVars, workspace, settings, isSaving, saveSuccess,
                       isSetupComplete, remote, page, sessionStorage>>

(***************************************************************************)
(* The settings store's own load and save (features/settings/store.ts)     *)
(***************************************************************************)
\* the storage key the settings store uses for a field
StoreKey(key, repoId) == getStorageKey(key, repoId, key \in REPO_SPECIFIC_KEYS)

\* loadedSettings of loadSettings: the cached fields that decode to valid values
StoreLoadCache(store, repoId) ==
    LET present == {k \in SettingKeys :
                        /\ StoreKey(k, repoId) \in DOMAIN store
                        /\ SETTINGS_SCHEMA(k, ParseStored(store[StoreKey(k, repoId)]))}
    IN  [k \in present |-> ParseStored(store[StoreKey(k, repoId)])]

\* the test loadSettings makes on the merged settings
SetupCheck(st) ==
    Truthy(st.projectType) /\ Truthy(st.postsPath) /\ Truthy(st.imagesPath)

loadSettings(repoId) ==
    LET merged == setSettings(settings, StoreLoadCache(localStorage, repoId))
        complete == IF SetupCheck(merged) THEN TRUE ELSE isSetupComplete
    IN  /\ page = "live"
        /\ settings' = merged
        /\ isSetupComplete' = complete
        /\ localStorage' = Persist(localStorage, complete)
        /\ UNCHANGED <<bootVars, workspace, isSaving, saveSuccess, isSyncing,
                       syncMessage, remote, handlerVars>>

\* the cache writes of saveSettings
StoreCacheWrite(store, repoId, st) ==
    [sk \in DOMAIN store \cup {StoreKey(k, repoId) : k \in DOMAIN st} |->
        IF \E k \in DOMAIN st : sk = StoreKey(k, repoId)
        THEN String(st[(CHOOSE k \in DOMAIN st : sk = StoreKey(k, repoId))])
        ELSE store[sk]]

\* configObject of saveSettings
StoreDocument(st) ==
    Json(MkDoc(
        {<<"version", Num(1)>>, <<"projectType", st.projectType>>,
         <<"postsPath", st.postsPath>>, <<"imagesPath", st.imagesPath>>,
         <<"domainUrl", st.domainUrl>>, <<"settings", Obj>>,
         <<"settings.postFileTypes", st.postFileTypes>>,
         <<"settings.imageFileTypes", st.imageFileTypes>>,
         <<"settings.publishDateSource", st.publishDateSource>>,
         <<"settings.imageCompression", Obj>>,
         <<"settings.imageCompression.enabled", st.imageCompressionEnabled>>,
         <<"settings.imageCompression.maxSize", st.maxImageSize>>,
         <<"settings.imageCompression.maxWidth", st.imageResizeMaxWidth>>,
         <<"commitMessages", Obj>>}
        \cup {<<"commitMessages." \o CommitMembers[i][1], st[CommitMembers[i][2]]>> :
                i \in DOMAIN CommitMembers}))

\* saveSettings up to its first await; without a gitService it is complete
saveSettings(repoId, hasGitService) ==
    /\ page = "live"
    /\ Invoke
    /\ localStorage' = Persist(StoreCacheWrite(localStorage, repoId, settings),
                               isSetupComplete)
    /\ IF hasGitService
       THEN /\ isSaving' = TRUE
            /\ saveSuccess' = FALSE
            /\ tasks' = Append(tasks,
                            [NewTask("saveSettings", "getFileSha", FALSE,
                                     StoreDocument(settings))
                                EXCEPT !.repo = repoId])
            /\ UNCHANGED lastReturn
       ELSE /\ isSaving' = FALSE
            /\ saveSuccess' = TRUE
            /\ lastReturn' = Returns("saveSettings", "local", TRUE)
            /\ UNCHANGED tasks
    /\ UNCHANGED <<bootVars, workspace, settings, isSetupComplete, isSyncing,
                   syncMessage, remote, lastLock, importExportStatus, page,
                   sessionStorage>>

(***************************************************************************)
(* The continuations of the handlers: getFileSha resolved, write resolved  *)
(***************************************************************************)
\* a repository whose full name has RepoA's as a proper substring
RepoAB == "o/ab"

\* id.includes(prefix) for the repository names at hand
IdIncludes(id, prefix) == id = prefix \/ (id = RepoAB /\ prefix = RepoA)

\* key.includes(prefix) for the storage key `${key}_${id}`: a repository
\* name holds a slash and no field name does, so a match lies within the id
Includes(sk, prefix) == IdIncludes(sk[2], prefix)

\* the repoSpecificKeys list of handleDeleteConfig
PurgedKeys ==
    SettingKeys \cup {"postTemplate", "postTableColumns", "postTableColumnWidths"}

\* handleDeleteConfig: every key that contains the repository prefix goes,
\* and the persisted blobs of the two stores
Purge(store, prefix) ==
    [sk \in {x \in DOMAIN store :
                /\ ~Includes(x, prefix)
                /\ x \notin {ScopedKey(k, prefix) : k \in PurgedKeys}
                /\ x \notin {PersistKey, <<"pageel-collections", "">>}} |-> store[sk]]

\* the workspace handleFinishSetup builds from the collection it created
FinishedWorkspace(ws, task) ==
    LET coll == task.doc[2]["collections"][2][1]
        base == IF IsNull(ws) THEN initWorkspace(ws, task.repo) ELSE ws
        fields == [k \in WorkspaceFields |-> task.closure[k]]
    IN  updateSettings(
            [setCollections(base, <<coll>>) EXCEPT !.activeCollectionId = Str(coll.id)],
            fields)

\* how an invocation ends without its write: the lock was busy, an awaited
\* call rejected, or the write was refused for its stale token
Failures == {"busy", "failed", "conflict"}

\* a delete-config that clears the browser's state whatever became of the
\* remote delete
ClearsAlways(event) == TRUE

\* handleDeleteConfig reaches its clearing of the cache, the session and
\* the workspace only when none of the awaited calls before it threw
ClearsLocalState(event) == event \notin Failures

\* The store fields a handler leaves behind when it returns.  event is one
\* of Failures, "noSha" (the file is missing) or "written".
HandlerEnd(task, event) ==
    LET same == [isSaving |-> isSaving, saveSuccess |-> saveSuccess,
                 isSetupComplete |-> isSetupComplete, workspace |-> workspace,
                 localStorage |-> localStorage,
                 importExportStatus |-> importExportStatus, page |-> page,
                 sessionStorage |-> sessionStorage,
                 setSaveSuccess |-> FALSE]
        saved == [same EXCEPT !.isSaving = FALSE, !.saveSuccess = TRUE,
                              !.setSaveSuccess = TRUE,
                              !.localStorage = Persist(localStorage, isSetupComplete)]
    IN  CASE task.kind \in {"handleSaveSettings", "handleSaveSettingsLegacy",
                            "saveSettings"} -> saved
          [] task.kind = "handleDeleteConfig" ->
                IF ~ClearsLocalState(event)
                THEN [same EXCEPT !.isSaving = FALSE,
                                  !.localStorage = Persist(localStorage, isSetupComplete)]
                ELSE [same EXCEPT !.isSaving = FALSE,
                                  !.isSetupComplete = FALSE,
                                  !.workspace = Null,
                                  !.localStorage =
                                        Persist(Purge(localStorage, task.repo), FALSE),
                                  !.sessionStorage = @ \ SessionKeys,
                                  !.page = "unloaded"]
          [] task.kind = "handleFileImport" ->
                IF event = "written"
                THEN [same EXCEPT !.importExportStatus = Str("success"),
                                  !.page = "reloading"]
                ELSE [same EXCEPT !.importExportStatus = Str("error: save")]
          [] task.kind = "handleFinishSetup" ->
                [same EXCEPT !.isSetupComplete = TRUE,
                             !.localStorage = Persist(localStorage, TRUE),
                             !.workspace = IF event = "written"
                                           THEN FinishedWorkspace(workspace, task)
                                           ELSE workspace]
          [] OTHER -> same

Return(task, event) ==
    LET end == HandlerEnd(task, event)
    IN  /\ isSaving' = end.isSaving
        /\ saveSuccess' = end.saveSuccess
        /\ isSetupComplete' = end.isSetupComplete
        /\ workspace' = end.workspace
        /\ localStorage' = end.localStorage
        /\ importExportStatus' = end.importExportStatus
        /\ page' = end.page
        /\ sessionStorage' = end.sessionStorage
        /\ lastReturn' = Returns(task.kind, event, end.setSaveSuccess)

LockMessage(kind) ==
    IF kind = "handleDeleteConfig" THEN Str("Deleting configuration...")
    ELSE Str("Saving settings...")

\* getFileSha('.pageelrc.json') resolved or rejected
GetFileShaResolved(t, networkOk) ==
    LET task == tasks[t]
        sha == Sha(remote[task.repo])
        admission == withSyncLock(isSyncing)
        asksLock == task.kind \in {"handleSaveSettingsLegacy", "handleDeleteConfig"}
    IN  /\ page # "unloaded"
        /\ task.pc = "getFileSha"
        /\ UNCHANGED <<bootVars, settings, remote, calls>>
        /\ IF ~networkOk
           THEN /\ Release(task, FALSE)
                /\ Return(task, "failed")
                /\ tasks' = RemoveAt(tasks, t)
                /\ UNCHANGED lastLock
           ELSE IF ~task.locked /\ sha = JsNull
           THEN /\ Return(task, "noSha")
                /\ tasks' = RemoveAt(tasks, t)
                /\ UNCHANGED <<isSyncing, syncMessage, lastLock>>
           ELSE IF asksLock /\ admission = "busy"
           THEN /\ Return(task, "busy")
                /\ tasks' = RemoveAt(tasks, t)
                /\ lastLock' = admission
                /\ RejectedBusy
           ELSE /\ tasks' = [tasks EXCEPT ![t] =
                    [task EXCEPT
                        !.pc = "write",
                        !.token = sha,
                        !.op = WriteOperation(task.kind, sha),
                        !.locked = @ \/ asksLock,
                        !.doc = IF task.kind = "handleSaveSettingsLegacy"
                                THEN LegacyDocument(task.closure, localStorage,
                                                    task.repo)
                                ELSE @]]
                /\ IF asksLock
                   THEN startSync(LockMessage(task.kind)) /\ lastLock' = admission
                   ELSE UNCHANGED <<isSyncing, syncMessage, lastLock>>
                /\ UNCHANGED <<isSaving, saveSuccess, isSetupComplete, workspace,
                               localStorage, importExportStatus, page, lastReturn,
                               sessionStorage>>

\* updateFileContent, createFileFromString or deleteFile resolved or rejected
WriteResolved(t, networkOk) ==
    LET task == tasks[t]
        file == remote[task.repo]
        accepted ==
            CASE task.op = "deleteFile" -> CanDelete(file, task.token)
              [] task.op = "createFileFromString" -> CanCreate(file)
              [] OTHER -> CanUpdate(file, task.token)
        succeeded == networkOk /\ accepted
    IN  /\ page # "unloaded"
        /\ task.pc = "write"
        /\ remote' = IF ~succeeded THEN remote
                     ELSE IF task.kind = "handleDeleteConfig"
                     THEN [remote EXCEPT ![task.repo] = NoFile]
                     ELSE [remote EXCEPT ![task.repo] = File(task.doc)]
        /\ Release(task, succeeded)
        /\ Return(task, IF succeeded THEN "written"
                        ELSE IF networkOk THEN "conflict" ELSE "failed")
        /\ tasks' = RemoveAt(tasks, t)
        /\ UNCHANGED <<bootVars, settings, lastLock, calls>>

\* the timer set by a successful import fires: window.location.reload()
PageReload ==
    /\ page = "reloading"
    /\ page' = "unloaded"
    /\ UNCHANGED <<bootVars, workspace, settings, isSaving, saveSuccess,
                   isSetupComplete, isSyncing, syncMessage, localStorage, remote,
                   tasks, lastLock, importExportStatus, lastReturn, calls,
                   sessionStorage>>

Handlers ==
    \/ \E e \in SettingEdits : handleSettingsChange(e[1], e[2])
    \/ handleSaveSettings
    \/ handleCollectionCreated
    \/ handleCollectionUpdated
    \/ handleDeleteCollection
    \/ onTemplateSaved
    \/ \E collectionName \in CollectionNames : handleFinishSetup(collectionName)
    \/ handleDeleteConfig
    \/ \E file \in ImportFiles \cup ExportedFiles : handleFileImport(file)
    \/ \E t \in DOMAIN tasks, networkOk \in BOOLEAN : GetFileShaResolved(t, networkOk)
    \/ \E t \in DOMAIN tasks, networkOk \in BOOLEAN : WriteResolved(t, networkOk)
    \/ PageReload

\* the dashboard of one repository: its bootstrap, then its handlers
HandlerNext ==
    \/ Mount
    \/ \E r \in DOMAIN runs, networkOk \in BOOLEAN : BootCollectionsLoaded(r, networkOk)
    \/ \E r \in DOMAIN runs, networkOk \in BOOLEAN : BootConfigRead(r, networkOk)
    \/ \E r \in DOMAIN runs : BootScanFailed(r)
    \/ \E r \in DOMAIN runs, foundUrl \in ProductionUrls : BootUrlProbed(r, foundUrl)
    \/ \E r \in DOMAIN runs, contentDirs \in ContentDirs : BootContentScanned(r, contentDirs)
    \/ \E r \in DOMAIN runs, imageDirs \in ImageDirs : BootImagesScanned(r, imageDirs)
    \/ Handlers

\* the scenarios in which the handlers are explored
HandlerInit ==
    /\ Init
    /\ remote[RepoA] \in {NoFile, File(Json(DocV2))}
    /\ \E cache \in {CacheEmpty, CacheFull(RepoA)} :
            localStorage \in {cache, Persist(cache, TRUE)}
HandlerSpec == HandlerInit /\ [][HandlerNext]_vars

\* what a caller of the settings store may pass to setSettings
SettingPatches ==
    {[maxImageSize |-> Num(5)], [postsPath |-> Str("content/posts")]}

\* a call of the store's setSettings with a partial object
CallSetSettings(newSettings) ==
    /\ page # "unloaded"
    /\ settings' = setSettings(settings, newSettings)
    /\ localStorage' = Persist(localStorage, isSetupComplete)
    /\ UNCHANGED <<bootVars, workspace, isSaving, saveSuccess, isSetupComplete,
                   isSyncing, syncMessage, remote, handlerVars>>

\* members SETTINGS_SCHEMA, an object literal, inherits from Object.prototype
ObjectPrototypeKeys == {"toString", "isPrototypeOf", "hasOwnProperty"}

\* SETTINGS_SCHEMA[key]: the field's own validator, an inherited member, or
\* undefined
SchemaLookup(key) ==
    IF key \in SchemaKeys THEN "validator"
    ELSE IF key \in ObjectPrototypeKeys THEN "inherited"
    ELSE "undefined"

\* an inherited member called as validator(value), on a primitive value and
\* with no receiver: toString answers a non-empty string, isPrototypeOf
\* answers false, hasOwnProperty throws a TypeError
InheritedCall(key, v) ==
    CASE key = "toString" -> Bool(TRUE)
      [] key = "isPrototypeOf" -> Bool(FALSE)
      [] OTHER -> <<"throw">>

\* the callback of every():  !validator || validator(value)
ValidateEntry(entry) ==
    LET key == entry[1]
        value == entry[2]
    IN  CASE SchemaLookup(key) = "undefined" -> Bool(TRUE)
          [] SchemaLookup(key) = "validator" -> Bool(SETTINGS_SCHEMA(key, value))
          [] OTHER -> InheritedCall(key, value)

\* Object.entries(settings).every(...), entries in insertion order
RECURSIVE validateSettings(_)
validateSettings(entries) ==
    IF entries = <<>> THEN Bool(TRUE)
    ELSE LET r == ValidateEntry(Head(entries))
         IN  IF r = Bool(TRUE) THEN validateSettings(Tail(entries)) ELSE r

\* the objects validateSettings is called with, as their entries
MaxEntries == 2
EntryKeys ==
    {"projectType", "maxImageSize", "theme", "toString", "isPrototypeOf",
     "hasOwnProperty"}
EntryValues == {Str("astro"), Str("hugo"), Num(500), Num(5), Undefined}
PartialSettings ==
    {es \in UNION {[1..n -> EntryKeys \X EntryValues] : n \in 0..MaxEntries} :
        \A i \in DOMAIN es : \A j \in DOMAIN es : i # j => es[i][1] # es[j][1]}

\* a call of the store's validateSettings and what it answered
Validated(entries, answer) ==
    [kind |-> "validateSettings", event |-> answer, setSaveSuccess |-> FALSE,
     settings |-> entries]
CallValidateSettings(entries) ==
    /\ page # "unloaded"
    /\ lastReturn' = Validated(entries, validateSettings(entries))
    /\ UNCHANGED <<bootVars, workspace, settings, localStorage, isSaving,
                   saveSuccess, isSetupComplete, isSyncing, syncMessage, remote,
                   tasks, lastLock, importExportStatus, page, calls, sessionStorage>>

\* the settings store's validation on its own, over every object
ValidateNext == \E entries \in PartialSettings : CallValidateSettings(entries)
\* validation reads neither the remote file nor the cache: one scenario
ValidateInit ==
    /\ Init
    /\ remote[RepoA] = NoFile
    /\ localStorage = CacheEmpty
ValidateSpec == ValidateInit /\ [][ValidateNext]_vars

\* the settings store driven through its own interface
StoreNext ==
    \/ \E newSettings \in SettingPatches : CallSetSettings(newSettings)
    \/ \E repoId \in Repos : loadSettings(repoId)
    \/ \E repoId \in Repos, hasGitService \in BOOLEAN : saveSettings(repoId, hasGitService)
    \/ \E t \in DOMAIN tasks, networkOk \in BOOLEAN : GetFileShaResolved(t, networkOk)
    \/ \E t \in DOMAIN tasks, networkOk \in BOOLEAN : WriteResolved(t, networkOk)
\* the scenarios in which the settings store is explored
StoreInit ==
    /\ Init
    /\ remote[RepoA] \in {NoFile, File(Json(DocV1)), File(Json(DocV2))}
StoreSpec == StoreInit /\ [][StoreNext]_vars

\* the dashboard with its import only, over every kind of remote file
ImportNext ==
    \/ Mount
    \/ \E r \in DOMAIN runs, networkOk \in BOOLEAN : BootCollectionsLoaded(r, networkOk)
    \/ \E r \in DOMAIN runs, networkOk \in BOOLEAN : BootConfigRead(r, networkOk)
    \/ \E r \in DOMAIN runs : BootScanFailed(r)
    \/ \E r \in DOMAIN runs, foundUrl \in ProductionUrls : BootUrlProbed(r, foundUrl)
    \/ \E r \in DOMAIN runs, contentDirs \in ContentDirs : BootContentScanned(r, contentDirs)
    \/ \E r \in DOMAIN runs, imageDirs \in ImageDirs : BootImagesScanned(r, imageDirs)
    \/ \E file \in ImportFiles \cup ExportedFiles : handleFileImport(file)
    \/ \E t \in DOMAIN tasks, networkOk \in BOOLEAN : GetFileShaResolved(t, networkOk)
    \/ \E t \in DOMAIN tasks, networkOk \in BOOLEAN : WriteResolved(t, networkOk)
    \/ PageReload
\* the scenarios in which the import is explored
ImportInit ==
    /\ Init
    /\ \E cache \in {CacheEmpty, CacheFull(RepoA)} :
            localStorage \in {cache, Persist(cache, TRUE)}
ImportSpec == ImportInit /\ [][ImportNext]_vars

\* cached fields of a repository whose name contains RepoA's, and the
\* persisted collections blob
CacheNeighbour ==
    (ScopedKey("postsPath", RepoAB) :> "content/blog")
    @@ (ScopedKey("postsPath", RepoB) :> "content/posts")
    @@ (<<"pageel-collections", "">> :> "{}")

\* the dashboard with its configuration reset only
DeleteNext ==
    \/ Mount
    \/ \E r \in DOMAIN runs, networkOk \in BOOLEAN : BootCollectionsLoaded(r, networkOk)
    \/ \E r \in DOMAIN runs, networkOk \in BOOLEAN : BootConfigRead(r, networkOk)
    \/ \E r \in DOMAIN runs : BootScanFailed(r)
    \/ \E r \in DOMAIN runs, foundUrl \in ProductionUrls : BootUrlProbed(r, foundUrl)
    \/ \E r \in DOMAIN runs, contentDirs \in ContentDirs : BootContentScanned(r, contentDirs)
    \/ \E r \in DOMAIN runs, imageDirs \in ImageDirs : BootImagesScanned(r, imageDirs)
    \/ handleDeleteConfig
    \/ \E t \in DOMAIN tasks, networkOk \in BOOLEAN : GetFileShaResolved(t, networkOk)
    \/ \E t \in DOMAIN tasks, networkOk \in BOOLEAN : WriteResolved(t, networkOk)
DeleteInit == InitOver({CacheNeighbour, CacheFull(RepoA) @@ CacheNeighbour})
DeleteSpec == DeleteInit /\ [][DeleteNext]_vars

\* the collection list of the main view selects a collection
CallSetActiveCollection(id) ==
    /\ MainUI
    /\ ~IsNull(workspace)
    /\ \E i \in DOMAIN workspace.collections : workspace.collections[i].id = id
    /\ workspace' = setActiveCollection(workspace, id)
    /\ UNCHANGED <<bootVars, settings, localStorage, isSaving, saveSuccess,
                   isSetupComplete, isSyncing, syncMessage, remote, handlerVars>>

\* the collection list of the main view deletes a collection
CallDeleteCollection(id) ==
    /\ MainUI
    /\ ~IsNull(workspace)
    /\ \E i \in DOMAIN workspace.collections : workspace.collections[i].id = id
    /\ workspace' = deleteCollection(workspace, id)
    /\ lastReturn' = Returns("deleteCollection",
                             IF workspace.activeCollectionId = Str(id)
                             THEN "active" ELSE "other", FALSE)
    /\ UNCHANGED <<bootVars, settings, localStorage, isSaving, saveSuccess,
                   isSetupComplete, isSyncing, syncMessage, remote, tasks,
                   lastLock, importExportStatus, page, calls, sessionStorage>>

CollectionIdsOfDocs == {CollMain.id, CollDocs.id}

\* the dashboard after its bootstrap, with the collection list in use
CollectionNext ==
    \/ Mount
    \/ \E r \in DOMAIN runs, networkOk \in BOOLEAN : BootCollectionsLoaded(r, networkOk)
    \/ \E r \in DOMAIN runs, networkOk \in BOOLEAN : BootConfigRead(r, networkOk)
    \/ \E r \in DOMAIN runs : BootScanFailed(r)
    \/ \E r \in DOMAIN runs, foundUrl \in ProductionUrls : BootUrlProbed(r, foundUrl)
    \/ \E r \in DOMAIN runs, contentDirs \in ContentDirs : BootContentScanned(r, contentDirs)
    \/ \E r \in DOMAIN runs, imageDirs \in ImageDirs : BootImagesScanned(r, imageDirs)
    \/ \E id \in CollectionIdsOfDocs : CallSetActiveCollection(id)
    \/ \E id \in CollectionIdsOfDocs : CallDeleteCollection(id)
\* a remote file whose first collection has no images path of its own
DocV2Bare ==
    [version |-> Num(2), settings |-> Obj, commitMessages |-> Obj,
     collections |-> Arr(<<Coll("collection-1", "Blog", "src/blog", ""), CollDocs>>),
     activeCollectionId |-> Str("collection-1")]
CollectionInit ==
    InitWith({NoFile, File(Json(DocV2)), File(Json(DocV2Bare))},
             {CacheEmpty, CacheFull(RepoA)})
CollectionSpec == CollectionInit /\ [][CollectionNext]_vars

\* the arguments the app store's actions are called with
PhaseMessages == {JsNull, Str(""), Str("Scanning..."), Str("Scan complete")}
ProgressValues == {Undefined, Num(0), Num(10), Num(37), Num(50), Num(100)}
SyncMessages == {Undefined, Str(""), Str("Saving settings...")}

\* a call of the app store's setScanPhase and its arguments
PhaseSet(phase, progress) ==
    [kind |-> "setScanPhase", event |-> "set", setSaveSuccess |-> FALSE,
     phase |-> phase, progress |-> progress]
CallSetScanPhase(phase, progress) ==
    /\ page # "unloaded"
    /\ setScanPhase(phase, progress)
    /\ lastReturn' = PhaseSet(phase, progress)
    /\ UNCHANGED <<repo, runs, started, lastDone, isScanning, suggestedPostPaths,
                   suggestedImagePaths, workspace, settings, localStorage,
                   isSaving, saveSuccess, isSetupComplete, isSyncing, syncMessage,
                   remote, tasks, lastLock, importExportStatus, page, calls,
                   sessionStorage>>

\* calls of the app store's startSync and endSync
SyncStarted(message) ==
    [kind |-> "startSync", event |-> "set", setSaveSuccess |-> FALSE,
     message |-> message]
CallStartSync(message) ==
    /\ page # "unloaded"
    /\ startSync(message)
    /\ lastReturn' = SyncStarted(message)
    /\ UNCHANGED <<bootVars, workspace, settings, localStorage, isSaving,
                   saveSuccess, isSetupComplete, remote, tasks, lastLock,
                   importExportStatus, page, calls, sessionStorage>>
CallEndSync ==
    /\ page # "unloaded"
    /\ endSync
    /\ UNCHANGED <<bootVars, workspace, settings, localStorage, isSaving,
                   saveSuccess, isSetupComplete, remote, handlerVars>>

\* the app store driven through its own interface
AppNext ==
    \/ \E phase \in PhaseMessages, progress \in ProgressValues :
            CallSetScanPhase(phase, progress)
    \/ \E message \in SyncMessages : CallStartSync(message)
    \/ CallEndSync
AppInit == InitWith({NoFile}, {CacheEmpty})
AppSpec == AppInit /\ [][AppNext]_vars

\* the continuations of the run r: its awaited call resolves or rejects
RunStep(r) ==
    \/ \E networkOk \in BOOLEAN : BootCollectionsLoaded(r, networkOk)
    \/ \E networkOk \in BOOLEAN : BootConfigRead(r, networkOk)
    \/ BootScanFailed(r)
    \/ \E foundUrl \in ProductionUrls : BootUrlProbed(r, foundUrl)
    \/ \E contentDirs \in ContentDirs : BootContentScanned(r, contentDirs)
    \/ \E imageDirs \in ImageDirs : BootImagesScanned(r, imageDirs)

\* a flat file whose values are valid and in part falsy
ImportFlatFalsy ==
    [imagesPath |-> Str("assets"), domainUrl |-> Str(""),
     imageResizeMaxWidth |-> Num(0)]

FlatImports == {Json(ImportFlat), Json(ImportFlatInvalid), Json(ImportFlatFalsy)}

\* the dashboard with its import of flat files only
FlatImportNext ==
    \/ Mount
    \/ \E r \in DOMAIN runs : RunStep(r)
    \/ \E file \in FlatImports : handleFileImport(file)
    \/ \E t \in DOMAIN tasks, networkOk \in BOOLEAN : GetFileShaResolved(t, networkOk)
    \/ \E t \in DOMAIN tasks, networkOk \in BOOLEAN : WriteResolved(t, networkOk)
    \/ PageReload

FlatImportInit ==
    InitWith({NoFile, File(Json(DocV1))}, {CacheEmpty, CacheFull(RepoA)})

FlatImportSpec == FlatImportInit /\ [][FlatImportNext]_vars

\* values the settings form accepts, among them texts that read as a
\* number or as a boolean literal, and a falsy number
CacheEdits ==
    {<<"postsPath", Str("2024")>>, <<"domainUrl", Str("true")>>,
     <<"imageResizeMaxWidth", Num(0)>>}

\* the dashboard and the settings store writing and reading the cache
CacheNext ==
    \/ Mount
    \/ \E r \in DOMAIN runs : RunStep(r)
    \/ \E e \in CacheEdits : handleSettingsChange(e[1], e[2])
    \/ handleSaveSettings
    \/ \E t \in DOMAIN tasks, networkOk \in BOOLEAN : GetFileShaResolved(t, networkOk)
    \/ \E t \in DOMAIN tasks, networkOk \in BOOLEAN : WriteResolved(t, networkOk)
    \/ \E repoId \in Repos : loadSettings(repoId)
    \/ \E repoId \in Repos : saveSettings(repoId, FALSE)

CacheInit == InitWith({NoFile}, {CacheEmpty, CacheFull(RepoA)})

CacheSpec == CacheInit /\ [][CacheNext]_vars

\* the repo prop changes while an earlier run still awaits a call: the
\* effect runs again, and the earlier run goes on, the effect having no
\* cleanup that would cancel it
RepoChangedInFlight(id) ==
    /\ started > 0
    /\ started < MaxRuns
    /\ runs # <<>>
    /\ id # repo
    /\ BootStep
    /\ loadSettingsAndScan(id)

OverlapNext ==
    \/ Bootstrap
    \/ \E id \in Repos : RepoChangedInFlight(id)

OverlapInit ==
    InitWith({NoFile, File(Json(DocV1))},
             {CacheEmpty, CacheFull(RepoA) @@ CacheFull(RepoB)})

OverlapSpec == OverlapInit /\ [][OverlapNext]_vars

\* every call a run awaits resolves or rejects in the end
CallsSettle ==
    \A id \in Repos :
        WF_vars(\E r \in DOMAIN runs : runs[r].repo = id /\ RunStep(r))

LiveSpec == OverlapSpec /\ CallsSettle

Next == Bootstrap

Spec == Init /\ [][Next]_vars

(***************************************************************************)
(* Properties                                                              *)
(***************************************************************************)
\* the invocations whose awaited call runs inside withSyncLock
LockedTasks == {t \in DOMAIN tasks : tasks[t].locked}
LockedCount == Cardinality(LockedTasks)

\* C1 - lock exclusivity: at most one lock-guarded operation is in flight,
\* and while one is in flight a call of withSyncLock ends with the busy error
\* and starts no operation (no queueing), whatever the interleaving.
C1_LockExclusivity ==
    /\ [](LockedCount <= 1)
    /\ [][LockedCount > 0 =>
            /\ LockedCount' <= LockedCount
            /\ lastLock' \in {lastLock, "busy"}]_vars

\* a call was rejected as busy while another caller's operation is in flight
C1_Witness == lastLock = "busy" /\ LockedCount = 1 /\ isSyncing

\* C2 - lock release: the step in which a lock-guarded operation terminates,
\* successfully or not, leaves isSyncing false and syncMessage null, so that
\* the next call of withSyncLock is admitted; with no guarded operation in
\* flight the lock is free.
C2_LockRelease ==
    /\ [](LockedCount = 0 => ~isSyncing /\ syncMessage = JsNull)
    /\ [][LockedCount' < LockedCount =>
            /\ isSyncing' = FALSE
            /\ syncMessage' = JsNull
            /\ withSyncLock(isSyncing') = "admitted"]_vars

\* an admitted import failed, and the lock is free again
C2_Witness ==
    /\ lastLock = "admitted"
    /\ importExportStatus = Str("error: save")
    /\ tasks = <<>>
    /\ ~isSyncing
    /\ syncMessage = JsNull

\* the invocations with a write, create or delete of .pageelrc.json in flight
WritesInFlight == {t \in DOMAIN tasks : tasks[t].pc = "write"}

\* C3 - every write, create or delete of the remote config file is made
\* while its caller holds the sync lock, so no two of them are in flight at
\* the same time.
C3_WritesUnderLock ==
    /\ \A t \in WritesInFlight : tasks[t].locked /\ isSyncing
    /\ Cardinality(WritesInFlight) <= 1

\* C4 - in every reachable state each settings field holds a value its
\* validator accepts: a rejected value given to setSettings or to
\* handleSettingsChange leaves the field as it was.
C4_SettingsValid ==
    \A key \in DOMAIN settings : SETTINGS_SCHEMA(key, settings[key])

\* a bootstrap run has returned and none is in flight
Returned == ~IsNull(lastDone) /\ runs = <<>>

\* C5 - a bootstrap run that found the v2 config of its repository ends with
\* isSetupComplete true and has invoked no scan collaborator.
C5_V2CompletesWithoutScan ==
    (Returned /\ lastDone.v2) => (isSetupComplete /\ lastDone.scans = {})

\* no cached field of the repository
CacheIsEmpty(store, id) == \A sk \in DOMAIN store : sk[2] # id

\* the step is handleFinishSetup returning: after its write, or at once
\* when the lock was busy
FinishSetupStep ==
    \/ \E t \in DOMAIN tasks :
            tasks[t].kind = "handleFinishSetup" /\ tasks' = RemoveAt(tasks, t)
    \/ WizardUI /\ isReady(settings) /\ calls' = calls + 1 /\ lastLock' = "busy"

\* C6 - with no remote config file and an empty cache, no step of the
\* bootstrap sets isSetupComplete (the scan that succeeds included): the only
\* step that turns it true is the return of handleFinishSetup.
C6_OnlyFinishSetupCompletes ==
    [][(/\ ~isSetupComplete
        /\ isSetupComplete'
        /\ ~remote[repo].exists
        /\ CacheIsEmpty(localStorage, repo)) => FinishSetupStep]_vars

\* the scan succeeded with setup incomplete, then the user finished setup
C6_Witness ==
    /\ Returned
    /\ lastDone.outcome = "scanned"
    /\ ~lastDone.completeAtStart
    /\ lastDone.scans = {"findProductionUrl", "scanForContentDirectories",
                         "scanForImageDirectories"}
    /\ isSetupComplete
    /\ ~IsNull(workspace)
    /\ Len(workspace.collections) = 1
    /\ workspace.collections[1].id = NewCollectionId

\* the scan collaborators in the order of the scan
ScanOrder ==
    <<"findProductionUrl", "scanForContentDirectories", "scanForImageDirectories">>

\* C7 - a run whose scan threw has skipped the sub-steps after the one that
\* threw, has recorded an error phase, and ends with isSetupComplete false,
\* also when an earlier run had set isSetupComplete true.
C7_ScanFailureLeavesIncomplete ==
    (Returned /\ lastDone.outcome = "scanFailed") =>
        /\ ~isSetupComplete
        /\ scanPhase = Str("Error: scan failed")
        /\ scanProgress = 0
        /\ \E i \in 1..3, j \in 1..3 :
                lastDone.scans = {ScanOrder[k] : k \in i..j}

\* where a flat document holds a settings field
RemotePath(key) ==
    CASE key = "projectType" -> "projectType"
      [] key = "postsPath" -> "paths.posts"
      [] key = "imagesPath" -> "paths.images"
      [] key = "domainUrl" -> "domainUrl"
      [] key \in {CommitMembers[i][2] : i \in DOMAIN CommitMembers} ->
            "commits." \o CommitMembers[CHOOSE i \in DOMAIN CommitMembers :
                                            CommitMembers[i][2] = key][1]
      [] OTHER -> "settings." \o key

\* remote over cache over previous, each value behind its validator
Precedence(key, doc, cached, previous) ==
    LET remoteValue == Get(doc, RemotePath(key))
    IN  IF remoteValue # Undefined /\ SETTINGS_SCHEMA(key, remoteValue)
        THEN remoteValue
        ELSE IF key \in DOMAIN cached THEN cached[key]
        ELSE previous[key]

\* C8 - after a bootstrap that read a flat remote config, every settings
\* field is the remote value when the remote supplies a valid one, else the
\* valid cached value, else the previous value; invalid remote values are
\* never merged.
C8_RemoteOverCache ==
    (/\ Returned
     /\ lastDone.outcome = "remote"
     /\ ~HasCollections(remote[lastDone.repo].content[2])) =>
        \A key \in SettingKeys :
            settings[key] = Precedence(key, remote[lastDone.repo].content[2],
                                       lastDone.loaded, lastDone.closure)

\* C9 - a run whose remote-first load found a v2 config reads no cache,
\* reads the remote file once, and writes no cache.
C9_V2ShortCircuit ==
    (Returned /\ lastDone.v2) =>
        /\ ~lastDone.cacheRead
        /\ lastDone.configReads = 1
        /\ ~lastDone.cacheWrote

Mandatory == {"projectType", "postsPath", "imagesPath"}

\* C10 - without a usable remote config, setup is marked complete without a
\* scan exactly when the cache alone holds valid values of the three
\* mandatory fields, in the bootstrap and in the store's loadSettings alike.
C10_CacheSufficiency ==
    /\ []((Returned /\ lastDone.outcome # "remote") =>
            (lastDone.outcome = "cache"
                <=> \A key \in Mandatory : Truthy(Get(lastDone.loaded, key))))
    /\ [][(/\ ~isSetupComplete
            /\ isSetupComplete'
            /\ UNCHANGED <<tasks, calls, runs, lastDone>>) =>
            \E repoId \in Repos :
                Mandatory \subseteq DOMAIN StoreLoadCache(localStorage, repoId)]_vars

\* some continuation of the run r can be taken
CanContinue(r) ==
    \/ \E networkOk \in BOOLEAN : ENABLED BootCollectionsLoaded(r, networkOk)
    \/ \E networkOk \in BOOLEAN : ENABLED BootConfigRead(r, networkOk)
    \/ \E foundUrl \in ProductionUrls : ENABLED BootUrlProbed(r, foundUrl)
    \/ \E contentDirs \in ContentDirs : ENABLED BootContentScanned(r, contentDirs)
    \/ \E imageDirs \in ImageDirs : ENABLED BootImagesScanned(r, imageDirs)

\* C11 - a failed read of the remote config (network error, missing file,
\* malformed JSON) never ends the bootstrap abnormally: a run in flight can
\* always go on, and a run whose read failed went to the cache tier when the
\* cache suffices and to the scan otherwise, and returned from there.
C11_ReadFailureFallsBack ==
    /\ \A r \in DOMAIN runs : CanContinue(r)
    /\ (Returned /\ "getFileContent" \in lastDone.failed) =>
            /\ lastDone.outcome \in {"cache", "scanned", "scanFailed"}
            /\ lastDone.outcome = "cache"
                    <=> \A key \in Mandatory : Truthy(Get(lastDone.loaded, key))
            /\ lastDone.outcome # "cache" => lastDone.scans # {}

\* both reads of a run failed, the cache did not suffice and the scan ran
C11_Witness ==
    /\ Returned
    /\ lastDone.failed = {"loadCollections", "getFileContent"}
    /\ remote[lastDone.repo] = File(Malformed)
    /\ lastDone.outcome = "scanned"
    /\ ~isScanning

\* the handlers that save the settings
SaveKinds == {"handleSaveSettings", "handleSaveSettingsLegacy", "saveSettings"}

\* C12 - a settings save whose remote write was rejected, because the sync
\* lock was busy or because the concurrency token was stale, does not set
\* saveSuccess to true: the save is reported as failed.
C12_RejectedSaveNotSuccess ==
    (lastReturn.kind \in SaveKinds /\ lastReturn.event \in {"busy", "conflict"})
        => ~lastReturn.setSaveSuccess

\* a run of the bootstrap is in its scan
ScanInFlight ==
    \E r \in DOMAIN runs :
        runs[r].pc \in {"findProductionUrl", "scanForContentDirectories",
                        "scanForImageDirectories"}

CollectionIds(file) ==
    IF file.exists /\ IsDoc(file.content) /\ HasCollections(file.content[2])
    THEN [i \in DOMAIN file.content[2]["collections"][2] |->
            file.content[2]["collections"][2][i].id]
    ELSE <<>>

\* the step is the return of a settings save whose write was accepted
SaveWritten ==
    /\ Len(tasks') < Len(tasks)
    /\ lastReturn'.kind \in SaveKinds
    /\ lastReturn'.event = "written"

\* C14 - a settings save never replaces a v2 remote config by a v1 document:
\* when the remote file holds collections, the document a settings save
\* writes over it has version 2 and holds the same collections.
C14_SaveKeepsV2 ==
    [][\A id \in Repos :
        (SaveWritten /\ remote'[id] # remote[id] /\ CollectionIds(remote[id]) # <<>>)
            => /\ Get(remote'[id].content[2], "version") = Num(2)
               /\ CollectionIds(remote'[id]) = CollectionIds(remote[id])]_vars

\* a payload holds a collections array with at least one element
NonEmptyCollections(doc) ==
    /\ "collections" \in DOMAIN doc
    /\ doc["collections"][1] = "a"
    /\ doc["collections"][2] # <<>>

\* the document of the invocation the step has started
StartedDoc == tasks'[Len(tasks')].doc[2]

\* C15 - version detection: a payload is treated as v2 exactly when it holds
\* a non-empty collections array, whatever its version field says.  On
\* bootstrap the collections of the remote file reach the workspace exactly
\* then; on import the payload is written as it is exactly then, and is
\* otherwise rebuilt as a flat version 1 document.
C15_VersionDetection ==
    /\ [][\A r \in DOMAIN runs :
            (/\ runs[r].pc = "loadCollections"
             /\ r \in DOMAIN runs'
             /\ runs'[r].pc = "getFileContent"
             /\ "loadCollections" \notin runs'[r].failed
             /\ IsDoc(remote[runs[r].repo].content)) =>
                LET doc == remote[runs[r].repo].content[2]
                IN  /\ runs'[r].v2 <=> NonEmptyCollections(doc)
                    /\ IF NonEmptyCollections(doc)
                       THEN workspace'.collections = doc["collections"][2]
                       ELSE workspace' = workspace]_vars
    /\ [][\A file \in ImportFiles :
            (handleFileImport(file) /\ IsDoc(file) /\ Len(tasks') > Len(tasks)) =>
                IF NonEmptyCollections(file[2])
                THEN /\ \A k \in DOMAIN file[2] \ {"version"} :
                            Get(StartedDoc, k) = file[2][k]
                     /\ localStorage' = localStorage
                ELSE /\ "collections" \notin DOMAIN StartedDoc
                     /\ Get(StartedDoc, "version") = Num(1)
                     /\ "paths" \in DOMAIN StartedDoc]_vars

\* a remote file with collections gave the workspace its collections, and
\* an import with version 2 and no collection was written
\* as a flat document
C15_Witness ==
    /\ Returned
    /\ lastDone.v2
    /\ ~IsNull(workspace)
    /\ Len(workspace.collections) = 2
    /\ lastReturn = Returns("handleFileImport", "written", FALSE)
    /\ remote[RepoA].exists
    /\ Get(remote[RepoA].content[2], "version") = Num(1)
    /\ Get(remote[RepoA].content[2], "paths.posts") = Str("docs")

\* the step is the return of an import whose write was accepted
ImportWritten ==
    /\ Len(tasks') < Len(tasks)
    /\ lastReturn'.kind = "handleFileImport"
    /\ lastReturn'.event = "written"

\* C16 - the document an import of a v2 payload (non-empty collections)
\* writes to the remote has version 2, whatever version field the payload
\* carried.
C16_ImportWritesVersion2 ==
    [][(ImportWritten /\ CollectionIds(remote'[repo]) # <<>>) =>
            Get(remote'[repo].content[2], "version") = Num(2)]_vars

\* reading back with loadCollectionsFromPageelrc what a file holds gives the
\* collections, the settings and the active collection id of the workspace
ReadsBackAs(file, ws) ==
    LET back == loadCollectionsFromPageelrc(file, TRUE)
    IN  /\ ~IsNull(back)
        /\ back.collections = ws.collections
        /\ back.settings = ws.settings
        /\ back.activeCollectionId = ws.activeCollectionId

\* a workspace written in its v2 form reads back equal
C17_WriteThenRead ==
    (~IsNull(workspace) /\ Len(workspace.collections) > 0) =>
        ReadsBackAs(File(V2Document(workspace)), workspace)

\* the document an import of the exported workspace writes reads back equal
C17_ExportThenImport ==
    [][\A file \in ExportedFiles :
        (handleFileImport(file) /\ Len(tasks') > Len(tasks)) =>
            ReadsBackAs(File(tasks'[Len(tasks')].doc), workspace)]_vars

\* the document finish-setup has written reads back as the workspace
\* finish-setup has built
C17_FinishSetupDocument ==
    [][(/\ Len(tasks') < Len(tasks)
        /\ lastReturn'.kind = "handleFinishSetup"
        /\ lastReturn'.event = "written") =>
            ReadsBackAs(remote'[repo], workspace')]_vars

\* C17 - round trip: the v2 form of a workspace reads back as an equal
\* workspace (same collections, same settings, same active collection id);
\* the document written by importing an export of the workspace, and the
\* document written by finish-setup, carry the workspace's collections,
\* settings and active collection id.
C17_RoundTrip ==
    /\ []C17_WriteThenRead
    /\ C17_ExportThenImport
    /\ C17_FinishSetupDocument

\* the step saves the settings for the repository id, through the store or
\* through the dashboard
SavesFor(id) ==
    \/ \E hasGitService \in BOOLEAN : saveSettings(id, hasGitService)
    \/ repo = id /\ handleSaveSettings

\* C18 - settings isolation: every settings field is cached under a key
\* scoped by the repository id, so that a save for one repository changes
\* nothing of what a load for another repository returns.
C18_SettingsIsolation ==
    /\ [](\A sk \in DOMAIN localStorage : sk[1] \in SettingKeys => sk[2] \in Repos)
    /\ [][\A a \in Repos : \A b \in Repos \ {a} :
            SavesFor(a) =>
                /\ StoreLoadCache(localStorage', b) = StoreLoadCache(localStorage, b)
                /\ DashboardLoadCache(localStorage', b)
                        = DashboardLoadCache(localStorage, b)]_vars

\* a cached string under storage key sk that decodes to a valid value of key
ValidCached(store, sk, key) ==
    sk \in DOMAIN store /\ SETTINGS_SCHEMA(key, ParseStored(store[sk]))

\* loaded holds exactly the validly cached fields, each with its decoded value
ExactlyValidSubset(loaded, store, prefix) ==
    /\ DOMAIN loaded = {k \in SettingKeys : ValidCached(store, ScopedKey(k, prefix), k)}
    /\ \A k \in DOMAIN loaded : loaded[k] = ParseStored(store[ScopedKey(k, prefix)])

\* the step of a bootstrap run that makes its cache load
CacheLoadStep(r) ==
    /\ r \in DOMAIN runs /\ r \in DOMAIN runs'
    /\ ~runs[r].cacheRead /\ runs'[r].cacheRead

\* C19: the cache load of the bootstrap returns exactly the fields whose
\* cached string decodes to a value that passes the field's validator, each
\* with that decoded value: nothing invalid, nothing valid left out, and no
\* field that has no valid cached value.
C19_CacheLoadValidSubset ==
    [][\A r \in DOMAIN runs :
            CacheLoadStep(r) =>
                ExactlyValidSubset(runs'[r].loaded, localStorage, runs[r].repo)]_vars

\* every entry whose key SETTINGS_SCHEMA defines passes that key's validator
KnownKeysPass(entries) ==
    \A i \in DOMAIN entries :
        entries[i][1] \in SchemaKeys =>
            SETTINGS_SCHEMA(entries[i][1], entries[i][2])

\* C20: validateSettings answers true exactly when every present key that
\* the schema has a validator for passes it, and false otherwise; a key the
\* schema does not define never changes the answer.
C20_ValidateSettings ==
    lastReturn.kind = "validateSettings" =>
        lastReturn.event = Bool(KnownKeysPass(lastReturn.settings))

\* the step on which a delete-config for repository id went through
DeleteDone(id) ==
    /\ page # "unloaded" /\ page' = "unloaded"
    /\ \E t \in DOMAIN tasks :
            tasks[t].kind = "handleDeleteConfig" /\ tasks[t].repo = id

\* no cache key of store names repository id, in full or as a substring
NoKeyOf(store, id) ==
    \A sk \in DOMAIN store :
        /\ ~IdIncludes(sk[2], id)
        /\ sk \notin {ScopedKey(k, id) : k \in PurgedKeys}

\* C21: once a delete-config for a repository has gone through, the cache
\* holds no key that contains the repository's name, none of the fixed list
\* of its scoped keys, and neither of the persisted blobs 'pageel-settings'
\* and 'pageel-collections'.
C21_DeletePurgesCache ==
    [][\A id \in Repos :
            DeleteDone(id) =>
                /\ NoKeyOf(localStorage', id)
                /\ PersistKey \notin DOMAIN localStorage'
                /\ <<"pageel-collections", "">> \notin DOMAIN localStorage']_vars

\* activeCollectionId is unset or names a collection of the workspace
ActiveCollectionExists ==
    ~IsNull(workspace) =>
        \/ workspace.activeCollectionId \in {JsNull, Undefined}
        \/ \E i \in DOMAIN workspace.collections :
                Str(workspace.collections[i].id) = workspace.activeCollectionId

\* the step that takes the collection at index i out of the workspace
DeletionStep(i) ==
    /\ ~IsNull(workspace) /\ ~IsNull(workspace')
    /\ workspace'.repoId = workspace.repoId
    /\ i \in DOMAIN workspace.collections
    /\ workspace'.collections =
            SubSeq(workspace.collections, 1, i - 1)
            \o SubSeq(workspace.collections, i + 1, Len(workspace.collections))

\* C22: activeCollectionId is always unset or the id of an existing
\* collection; deleting the active collection makes the first remaining
\* collection active, deleting the last remaining one unsets it, and deleting
\* another collection leaves it alone.
C22_ActiveCollectionInvariant ==
    /\ []ActiveCollectionExists
    /\ [][\A i \in 1..Cardinality(CollectionIdsOfDocs) :
            DeletionStep(i) =>
                workspace'.activeCollectionId =
                    IF workspace.activeCollectionId # Str(workspace.collections[i].id)
                    THEN workspace.activeCollectionId
                    ELSE IF workspace'.collections = <<>> THEN JsNull
                    ELSE Str(workspace'.collections[1].id)]_vars
\* the active collection of two was deleted and the other one took over
C22_Witness ==
    /\ lastReturn = Returns("deleteCollection", "active", FALSE)
    /\ Len(workspace.collections) = 1
    /\ workspace.activeCollectionId = Str(workspace.collections[1].id)

\* the workspace has an active collection, at index i
ActiveAt(i) ==
    /\ ~IsNull(workspace)
    /\ i \in DOMAIN workspace.collections
    /\ Str(workspace.collections[i].id) = workspace.activeCollectionId

\* the path a view is to get for field, given the value of the settings store
ResolvedPath(field) ==
    IF \E i \in 1..Cardinality(CollectionIdsOfDocs) :
            ActiveAt(i) /\ workspace.collections[i][field] # ""
    THEN LET i == CHOOSE j \in 1..Cardinality(CollectionIdsOfDocs) : ActiveAt(j)
         IN  Str(workspace.collections[i][field])
    ELSE settings[field]

\* C23: the posts path and the images path handed to the views are the
\* active collection's when there is an active collection and its path is
\* not empty, and the path of the settings store otherwise.
C23_PathResolution ==
    /\ effectivePostsPath = ResolvedPath("postsPath")
    /\ effectiveImagesPath = ResolvedPath("imagesPath")
\* an active collection with a posts path of its own and no images path,
\* beside settings that name other paths
C23_Witness ==
    /\ ActiveAt(1)
    /\ workspace.collections[1].postsPath # ""
    /\ workspace.collections[1].imagesPath = ""
    /\ Truthy(settings.postsPath)
    /\ effectivePostsPath = Str(workspace.collections[1].postsPath)
    /\ effectivePostsPath # settings.postsPath
    /\ effectiveImagesPath = settings.imagesPath

\* C24: setScanPhase stores the phase; with an explicit progress it stores
\* exactly that progress, and without one it stores 50 for every phase
\* message that is not null and 0 for the null phase.
C24_DefaultProgress ==
    lastReturn.kind = "setScanPhase" =>
        /\ scanPhase = lastReturn.phase
        /\ scanProgress =
                IF lastReturn.progress # Undefined THEN lastReturn.progress[2]
                ELSE IF lastReturn.phase # JsNull THEN 50
                ELSE 0

\* a bootstrap run returns on this step
RunReturns == Len(runs') < Len(runs)

\* the phase message the catch of the scan leaves
ErrorPhases == {Str("Error: scan failed")}

\* C25: the scan progress is an integer between 0 and 100 in every state;
\* a bootstrap whose scan failed returns with progress 0 and an error
\* message as phase, and a bootstrap that returns after the remote config
\* was loaded, the cached settings were used or the scan completed returns
\* with progress 100.
C25_ScanProgress ==
    /\ [](scanProgress \in 0..100)
    /\ [][RunReturns =>
            /\ lastDone'.outcome \in {"remote", "cache", "scanned", "scanFailed"}
            /\ lastDone'.outcome = "scanFailed" =>
                    scanProgress' = 0 /\ scanPhase' \in ErrorPhases
            /\ lastDone'.outcome # "scanFailed" => scanProgress' = 100]_vars
\* runs of both kinds: one that ended in a failed scan
C25_Witness ==
    /\ Returned
    /\ lastDone.outcome = "scanFailed"
    /\ scanProgress = 0
    /\ scanPhase \in ErrorPhases

\* the awaited call of run r changes on this step, the run staying in flight
Advances(r) ==
    /\ Len(runs') = Len(runs)
    /\ runs'[r].pc # runs[r].pc

\* the progress reported on the step that calls a scan collaborator
ProgressBeforeStep ==
    \A r \in DOMAIN runs :
        Advances(r) =>
            /\ runs'[r].pc = "findProductionUrl" => scanProgress' = 60
            /\ runs'[r].pc = "scanForContentDirectories" => scanProgress' = 75
            /\ runs'[r].pc = "scanForImageDirectories" => scanProgress' = 90

\* the order of the awaited calls when every scan begins with the probe
StrictOrder ==
    {<<"loadCollections", "getFileContent">>,
     <<"getFileContent", "findProductionUrl">>,
     <<"findProductionUrl", "scanForContentDirectories">>,
     <<"scanForContentDirectories", "scanForImageDirectories">>}

\* a scan returns as complete only after its image-directory scan
CompletesAfterImages ==
    (RunReturns /\ lastDone'.outcome = "scanned") =>
        \E r \in DOMAIN runs : runs[r].pc = "scanForImageDirectories"

\* the first directory of each scan becomes the working path, the list the
\* suggestions; a scan that finds nothing leaves the path alone
SuggestionsApplied ==
    /\ \A r \in DOMAIN runs :
            (Advances(r) /\ runs[r].pc = "scanForContentDirectories") =>
                settings'.postsPath =
                    IF suggestedPostPaths' # <<>> THEN Str(suggestedPostPaths'[1])
                    ELSE settings.postsPath
    /\ (RunReturns /\ lastDone'.outcome = "scanned") =>
                settings'.imagesPath =
                    IF suggestedImagePaths' # <<>> THEN Str(suggestedImagePaths'[1])
                    ELSE settings.imagesPath

\* C26 as stated: every scan runs the production-URL probe, then the
\* content-directory scan, then the image-directory scan, with progress 60,
\* 75 and 90 while the respective step is awaited, and the first suggestion
\* of each directory scan becomes the working path.
C26_ScanOrderAsStated ==
    /\ [][ProgressBeforeStep]_vars
    /\ [][/\ \A r \in DOMAIN runs :
                Advances(r) => <<runs[r].pc, runs'[r].pc>> \in StrictOrder
          /\ CompletesAfterImages
          /\ SuggestionsApplied]_vars

\* C26 amended: the production-URL probe runs first unless the settings the
\* run started with already hold a domain URL, in which case the scan begins
\* with the content-directory scan; the rest as stated.
C26_ScanOrder ==
    /\ [][ProgressBeforeStep]_vars
    /\ [][/\ \A r \in DOMAIN runs :
                Advances(r) =>
                    \/ <<runs[r].pc, runs'[r].pc>> \in StrictOrder
                            /\ (runs'[r].pc = "findProductionUrl" =>
                                    ~Truthy(runs[r].closure.domainUrl))
                    \/ /\ runs[r].pc = "getFileContent"
                       /\ runs'[r].pc = "scanForContentDirectories"
                       /\ Truthy(runs[r].closure.domainUrl)
          /\ CompletesAfterImages
          /\ SuggestionsApplied]_vars
\* a scan that skipped the probe awaits the image-directory scan, the first
\* content directory being the posts path
C26_Witness ==
    \E r \in DOMAIN runs :
        /\ runs[r].pc = "scanForImageDirectories"
        /\ "findProductionUrl" \notin runs[r].scans
        /\ Len(suggestedPostPaths) > 1
        /\ settings.postsPath = Str(suggestedPostPaths[1])
        /\ scanProgress = 90

\* C27: a bootstrap that returns after merging the remote config leaves,
\* for every settings key whose merged value is defined, the String encoding
\* of that value in the cache under the key scoped by its repository, the
\* progress at 100, isSetupComplete true and isScanning false.
C27_MergeRefreshesCache ==
    [][(RunReturns /\ lastDone'.outcome = "remote") =>
            /\ \A key \in SettingKeys :
                    settings'[key] # Undefined =>
                        /\ ScopedKey(key, lastDone'.repo) \in DOMAIN localStorage'
                        /\ localStorage'[ScopedKey(key, lastDone'.repo)]
                                = String(settings'[key])
            /\ scanProgress' = 100
            /\ isSetupComplete'
            /\ ~isScanning']_vars
\* a flat remote config was merged over a cache that held other values
C27_Witness ==
    /\ Returned
    /\ lastDone.outcome = "remote"
    /\ ~lastDone.v2
    /\ Get(lastDone.loaded, "postsPath") \notin {Undefined, settings.postsPath}
    /\ localStorage[ScopedKey("postsPath", lastDone.repo)] = String(settings.postsPath)
    /\ localStorage[ScopedKey("maxImageSize", lastDone.repo)]
            = String(settings.maxImageSize)

\* the invocation t issues its write on this step, after its getFileSha
IssuesWrite(t) ==
    /\ t \in DOMAIN tasks /\ t \in DOMAIN tasks'
    /\ Len(tasks') = Len(tasks)
    /\ tasks[t].pc = "getFileSha" /\ tasks'[t].pc = "write"

\* C28: a pending update of the config file carries a sha, and a pending
\* write is a create exactly when it has no sha; the sha is the one the
\* file had when getFileSha read it; an import holds the lock from before
\* its getFileSha until its write has resolved.
C28_TokenedWrites ==
    /\ [](\A t \in DOMAIN tasks :
            /\ (tasks[t].pc = "write" /\ tasks[t].op # "deleteFile") =>
                    /\ tasks[t].op \in {"updateFileContent", "createFileFromString"}
                    /\ tasks[t].op = "createFileFromString" <=> tasks[t].token = JsNull
            /\ tasks[t].kind = "handleFileImport" => tasks[t].locked /\ isSyncing)
    /\ [][\A t \in DOMAIN tasks :
            IssuesWrite(t) =>
                /\ tasks'[t].token = Sha(remote[tasks[t].repo])
                /\ tasks'[t].op = "updateFileContent" => remote[tasks[t].repo].exists]_vars
\* an import that read a sha is about to update the file, the lock held
C28_Witness ==
    \E t \in DOMAIN tasks :
        /\ tasks[t].kind = "handleFileImport"
        /\ tasks[t].pc = "write"
        /\ tasks[t].op = "updateFileContent"
        /\ tasks[t].token # JsNull
        /\ isSyncing

\* C29: isSyncing is true exactly when syncMessage is not null; a sync in
\* progress shows the message startSync was given, or 'Syncing...' when it
\* was given none or an empty one.
C29_SyncFlagAndMessage ==
    /\ isSyncing <=> syncMessage # JsNull
    /\ isSyncing => IsStr(syncMessage) /\ syncMessage[2] # ""
    /\ (isSyncing /\ lastReturn.kind = "startSync") =>
            syncMessage = IF lastReturn.message \in {Undefined, Str("")}
                          THEN Str("Syncing...")
                          ELSE lastReturn.message
\* startSync was called without a message and the default text shows
C29_Witness ==
    /\ isSyncing
    /\ lastReturn = SyncStarted(Undefined)
    /\ syncMessage = Str("Syncing...")

\* a handler's withSyncLock call is rejected as busy on this step: at once
\* when the handler is invoked, or after its getFileSha
BusyRejection ==
    /\ lastReturn'.event = "busy"
    /\ \/ calls' = calls + 1 /\ tasks' = tasks
       \/ Len(tasks') < Len(tasks)

\* C30: a withSyncLock call rejected as busy leaves isSyncing true and the
\* message of the operation that holds the lock in place, and that
\* operation still holds the lock.
C30_BusyLeavesLock ==
    [][BusyRejection =>
            /\ isSyncing /\ isSyncing'
            /\ syncMessage' = syncMessage
            /\ \E t \in DOMAIN tasks' : tasks'[t].locked]_vars
\* a caller was rejected while another operation holds the lock
C30_Witness ==
    /\ lastReturn.event = "busy"
    /\ lastLock = "busy"
    /\ isSyncing
    /\ syncMessage # JsNull
    /\ \E t \in DOMAIN tasks : tasks[t].locked /\ tasks[t].kind # lastReturn.kind

\* a run of the given repository is in flight
InFlight(id) == \E r \in DOMAIN runs : runs[r].repo = id

\* a run of the given repository has returned, the scan flag being down
ReturnedFor(id) ==
    /\ ~IsNull(lastDone)
    /\ lastDone.repo = id
    /\ ~isScanning

\* C31: every run of loadSettingsAndScan whose awaited calls all resolve or
\* reject reaches a state with isScanning = false, whichever way it takes:
\* remote document merged, cache used, scan completed, scan failed, the
\* remote-first load having failed or not.
C31_BootstrapTerminates ==
    \A id \in Repos : InFlight(id) ~> (~InFlight(id) /\ ReturnedFor(id))

\* a run whose remote-first load and whose read of the flat document both
\* failed has scanned and returned with the scan flag down
C31_Witness ==
    /\ ~IsNull(lastDone)
    /\ lastDone.failed = {"loadCollections", "getFileContent"}
    /\ lastDone.outcome \in {"scanned", "scanFailed"}
    /\ runs = <<>>
    /\ ~isScanning

\* the run r, started before the latest one, takes a step
StaleStep(r) ==
    /\ r < Len(runs)
    /\ \/ runs' = RemoveAt(runs, r)
       \/ Len(runs') = Len(runs) /\ runs'[r] # runs[r]

\* C32: when runs of the bootstrap overlap, a run that is not the latest
\* writes nothing into the settings snapshot, does not decide
\* isSetupComplete, and does not bring isScanning down while the latest run
\* is in flight: what remains is what the latest run alone produced.
C32_LatestRunWins ==
    [][\A r \in DOMAIN runs :
            StaleStep(r) =>
                /\ settings' = settings
                /\ isSetupComplete' = isSetupComplete
                /\ isScanning => isScanning']_vars

\* every field of the record passes its validator
AllValid(st) == \A k \in DOMAIN st : SETTINGS_SCHEMA(k, st[k])

\* the step is handleSaveSettings writing the settings to the cache
DashboardSaves ==
    /\ calls' = calls + 1
    /\ localStorage' =
            Persist(CacheWrite(localStorage, repo, settings, DOMAIN settings),
                    isSetupComplete)

\* the step is the store's saveSettings writing the settings to the cache
StoreSaves(repoId) ==
    /\ calls' = calls + 1
    /\ localStorage' =
            Persist(StoreCacheWrite(localStorage, repoId, settings),
                    isSetupComplete)

\* C33: a settings record whose fields all pass their validators, once
\* saved to the cache of a repository, is what a load of that repository's
\* cache yields, field by field, texts that read as a number or a boolean
\* literal included; so for the dashboard's save and load as for the store's.
C33_CacheRoundTrip ==
    [][AllValid(settings) =>
            /\ DashboardSaves => DashboardLoadCache(localStorage', repo) = settings
            /\ \A repoId \in Repos :
                    StoreSaves(repoId) =>
                        StoreLoadCache(localStorage', repoId) = settings]_vars

\* the paths, the technical settings and the commit-message templates
FlatFields == SettingKeys \ {"projectType", "domainUrl"}

\* the task t, a save of the settings, has its flat document written
FlatSaveWritten(t) ==
    /\ tasks[t].kind \in {"saveSettings", "handleSaveSettingsLegacy"}
    /\ tasks[t].pc = "write"
    /\ tasks' = RemoveAt(tasks, t)
    /\ remote'[tasks[t].repo] = File(tasks[t].doc)
    /\ remote' # remote

\* C34: a flat document written by a save of the settings (the store's
\* saveSettings, the legacy branch of handleSaveSettings), read by the
\* bootstrap's flat merge, gives back the paths, the technical settings and
\* the commit-message templates that were written.
C34_FlatRoundTrip ==
    [][\A t \in DOMAIN tasks :
            (FlatSaveWritten(t) /\ AllValid(tasks[t].closure)) =>
                LET config == ReadConfig(remote'[tasks[t].repo], TRUE)
                    merged == MergeRemote(DEFAULT_SETTINGS, config[2])
                IN  \A k \in FlatFields : merged[k] = tasks[t].closure[k]]_vars

\* handleDeleteConfig is invoked on this step
DeleteInvoked ==
    /\ calls' = calls + 1
    /\ Len(tasks') > Len(tasks)
    /\ tasks'[Len(tasks')].kind = "handleDeleteConfig"

\* the delete-config t has read the token and goes on to the remote delete
DeleteGoesOn(t) ==
    /\ tasks[t].kind = "handleDeleteConfig"
    /\ Len(tasks') = Len(tasks)
    /\ tasks[t].pc = "getFileSha"
    /\ tasks'[t].pc = "write"

\* the delete-config t ends in its catch: the token read or the remote
\* delete threw, or the sync lock was busy
DeleteFails(t) ==
    /\ tasks[t].kind = "handleDeleteConfig"
    /\ tasks' = RemoveAt(tasks, t)
    /\ lastReturn'.kind = "handleDeleteConfig"
    /\ lastReturn'.event \in Failures

\* C35: a delete-config that fails (the token read or the remote delete
\* throws, or the sync lock is busy) leaves the local cache, the session
\* storage, the workspace and isSetupComplete as they were, from its
\* invocation to its end, and ends with isSaving = false.
C35_FailedDeleteKeepsState ==
    [][\A t \in DOMAIN tasks :
            /\ (DeleteInvoked \/ DeleteGoesOn(t) \/ DeleteFails(t)) =>
                    UNCHANGED <<localStorage, sessionStorage, workspace,
                                isSetupComplete>>
            /\ DeleteFails(t) => ~isSaving']_vars

\* a delete-config has met the busy lock of another one, the remote file,
\* the cache, the session and the workspace being in place
C35_Witness ==
    /\ lastReturn.kind = "handleDeleteConfig"
    /\ lastReturn.event = "busy"
    /\ ~isSaving
    /\ isSetupComplete
    /\ sessionStorage = SessionKeys
    /\ ~IsNull(workspace)
    /\ ScopedKey("postsPath", RepoA) \in DOMAIN localStorage
    /\ page = "live"

\* a key of the imported document that the schema knows holds a value its
\* validator refuses
HasInvalidKey(imported) ==
    \E k \in DOMAIN imported \cap SchemaKeys : ~SETTINGS_SCHEMA(k, imported[k])

\* C36: the import of a flat document one of whose known keys fails its
\* validator is rejected with the validation error, and neither the cache
\* nor the remote file is touched: nothing is cached and no write is set out.
C36_InvalidImportRejected ==
    [][\A file \in FlatImports :
            (handleFileImport(file) /\ HasInvalidKey(file[2])) =>
                /\ importExportStatus' = Str("error: validation")
                /\ lastReturn' = Returns("handleFileImport", "invalid", FALSE)
                /\ UNCHANGED <<localStorage, remote, tasks, isSyncing>>]_vars

\* an import has been rejected for a value, no write being in flight
C36_Witness ==
    /\ importExportStatus = Str("error: validation")
    /\ lastReturn = Returns("handleFileImport", "invalid", FALSE)
    /\ tasks = <<>>
    /\ ScopedKey("maxImageSize", repo) \notin DOMAIN localStorage
           \/ localStorage[ScopedKey("maxImageSize", repo)] # "5"

\* the settings fields an imported document carries
ImportedFields(imported) == DOMAIN imported \cap SettingKeys

\* C37: a flat import that goes through writes each imported value, falsy
\* ones such as imageResizeMaxWidth = 0 or an empty text included, both to
\* the cache and into the version-1 document it sets out to write, so that
\* the two agree on every imported field.
C37_ImportAgrees ==
    [][\A file \in FlatImports :
            (handleFileImport(file) /\ Len(tasks') > Len(tasks)) =>
                LET doc == tasks'[Len(tasks')].doc[2]
                IN  \A k \in ImportedFields(file[2]) :
                        /\ localStorage'[ScopedKey(k, repo)] = String(file[2][k])
                        /\ doc[RemotePath(k)] = file[2][k]]_vars

\* the run r calls findProductionUrl on this step
ProbeInvoked(r) == Advances(r) /\ runs'[r].pc = "findProductionUrl"

\* the probe of the run r resolves on this step
ProbeResolved(r) == Advances(r) /\ runs[r].pc = "findProductionUrl"

\* C38: in the scan fallback the production-URL probe is called only when
\* the settings hold no domain URL, and a non-empty domainUrl the settings
\* hold, be it one the same run loaded from the cache, is not replaced by
\* what the probe found.
C38_ProbeKeepsDomainUrl ==
    [][\A r \in DOMAIN runs :
            /\ ProbeInvoked(r) => ~Truthy(settings.domainUrl)
            /\ (ProbeResolved(r) /\ Truthy(settings.domainUrl)) =>
                    settings'.domainUrl = settings.domainUrl]_vars

\* postsPath and imagesPath are set, and so is domainUrl unless the project
\* is of type 'github'
Ready(st) ==
    /\ st.postsPath # Str("")
    /\ st.imagesPath # Str("")
    /\ st.projectType = Str("github") \/ st.domainUrl # Str("")

\* the finish-setup t returns on this step, its create resolved or rejected
FinishReturns(t) ==
    /\ tasks[t].kind = "handleFinishSetup"
    /\ tasks' = RemoveAt(tasks, t)
    /\ lastReturn'.kind = "handleFinishSetup"

\* a finish-setup is invoked and returns at once, the sync lock being busy
FinishBusy ==
    /\ calls' = calls + 1
    /\ Len(tasks') = Len(tasks)
    /\ lastReturn' = Returns("handleFinishSetup", "busy", FALSE)

\* the workspace holds the one collection made of the paths of st, active
OneCollectionOf(ws, st) ==
    /\ ~IsNull(ws)
    /\ Len(ws.collections) = 1
    /\ Str(ws.collections[1].postsPath) = st.postsPath
    /\ Str(ws.collections[1].imagesPath) = st.imagesPath
    /\ ws.activeCollectionId = Str(ws.collections[1].id)

\* C39: finish-setup marks setup complete only when the settings it was
\* called with are ready (postsPath and imagesPath non-empty, and domainUrl
\* non-empty unless projectType is 'github'); when they are, it marks setup
\* complete whether the create of the remote config succeeded, failed or met
\* a busy lock; and it is on a successful create only that it makes the
\* workspace hold exactly one collection, with the paths of those settings
\* and active, a create that did not succeed leaving the workspace as it was.
C39_FinishSetup ==
    [][/\ \A t \in DOMAIN tasks :
            FinishReturns(t) =>
                /\ Ready(tasks[t].closure)
                /\ isSetupComplete'
                /\ IF lastReturn'.event = "written"
                   THEN OneCollectionOf(workspace', tasks[t].closure)
                   ELSE workspace' = workspace
       /\ FinishBusy =>
                /\ Ready(settings)
                /\ isSetupComplete'
                /\ workspace' = workspace]_vars

\* finish-setup has created the remote config: setup is complete and the
\* workspace holds the one new collection, active, beside the new file
C39_Witness ==
    /\ lastReturn = Returns("handleFinishSetup", "written", FALSE)
    /\ isSetupComplete
    /\ remote[repo].exists
    /\ OneCollectionOf(workspace, settings)
    /\ workspace.collections[1].id = NewCollectionId

====
